---- MODULE Spec2Model ----
(***************************************************************************)
(* The LaTeX normalisation pipeline of python-scripte/suchen_ersetzen.py.  *)
(*                                                                         *)
(* A document is a sequence of lexical tokens.  A token is a maximal word  *)
(* (a control word such as \begin, a run of letters or digits) or a single *)
(* punctuation, blank or line-break character, so that every literal the   *)
(* code searches for is a fixed sequence of tokens and a substring test of *)
(* the code is an infix test on token sequences.                           *)
(***************************************************************************)
EXTENDS Integers, Sequences, FiniteSets, TLC

VARIABLES
    tex_dir,   \* Config.tex_dir, a relative path as its sequence of components
    cwd,       \* the working directory of the process, as a path from the root
    exitCode,  \* -1 while running, else the exit status of the process
    disk,      \* file name -> document stored on disk
    disk0,     \* the documents on disk when the run started
    pc,        \* position of process_files / _process_single_file
    todo,      \* tex_files not yet handed to _process_single_file
    cur,       \* the file _process_single_file is working on ("" if none)
    content,   \* the local variable content
    content0,  \* content as read_text returned it
    step,      \* index of the next entry of transformations
    raised,    \* per file: the transformation steps that raised
    ioFailed,  \* per file: "" or the I/O operation that failed
    writes,    \* per file: number of completed write_text calls
    log,       \* the records handed to logging
    rule,      \* rule harness: the rule under test (0 in the file run)
    parts,     \* rule harness: the pieces the input document is built from
    inDoc,     \* rule harness: the input document
    outDoc,    \* rule harness: rule(inDoc)
    out2,      \* rule harness: rule(rule(inDoc))
    phase,     \* rule harness: "in", "once" or "twice"
    funktion,  \* latexcode_entfernen2: the function called ("" if none)
    tex_pfad,  \* latexcode_entfernen2: its argument tex_pfad
    dateien,   \* latexcode_entfernen2: the files on disk, path -> text
    dateien0,  \* latexcode_entfernen2: the files before the call
    inhalt,    \* latexcode_entfernen2: the local variable inhalt
    lc_pc,     \* latexcode_entfernen2: the position in the function
    ausgabe,   \* latexcode_entfernen2: the lines printed
    args_config,     \* scriptauswahl: the path given with --config ("" if none)
    yaml,            \* scriptauswahl: the configuration files on disk, path -> table
    CONFIG,          \* scriptauswahl: the module global CONFIG
    LATEX_COMMANDS,  \* scriptauswahl: the module global LATEX_COMMANDS
    MAKE_COMMANDS,   \* scriptauswahl: the module global MAKE_COMMANDS
    HTML_COMMANDS,   \* scriptauswahl: the module global HTML_COMMANDS
    sa_pc,           \* scriptauswahl: the position of the script
    eingaben,        \* scriptauswahl: number of menu inputs read so far
    aufrufe,         \* scriptauswahl: the commands handed to subprocess.run
    sa_log,          \* scriptauswahl: the records handed to logging
    eingangs_pdf,  \* pdf_extractor: the input PDF, [da, seiten] (does it exist, its pages)
    startseite,    \* pdf_extractor: the argument startseite
    endseite,      \* pdf_extractor: the argument endseite
    komprimieren,  \* pdf_extractor: the argument komprimieren
    writer,        \* pdf_extractor: the pages added to the PdfWriter
    seitennummer,  \* pdf_extractor: the loop variable seitennummer
    ausgangs_pdf,  \* pdf_extractor: the output PDF, [da, seiten]
    pe_pc,         \* pdf_extractor: the position in extrahiere_kapitel
    pe_fehler,     \* pdf_extractor: the exception raised ("" if none)
    pe_log,        \* pdf_extractor: the records handed to logging
    force,    \* image_resizer: config.force
    bilder,   \* image_resizer: the files on disk, path -> content
    bilder0,  \* image_resizer: the files on disk before the run
    ir_pc,    \* image_resizer: per image, the position in process_single_image
    ir_log,   \* image_resizer: the records handed to logger
    url,          \* youtube_text_extraktor: the argument url, as its parts
    video_id,     \* youtube_text_extraktor: the local variable video_id
    untertitel,   \* youtube_text_extraktor: what the transcript service holds for the video
    audio_datei,  \* youtube_text_extraktor: does audio.mp3 exist
    text,         \* youtube_text_extraktor: the local variable text
    yt_pc,        \* youtube_text_extraktor: the position in extrahiere_text_aus_video
    yt_schritte,  \* youtube_text_extraktor: the calls made and lines printed
    rueckgabe     \* youtube_text_extraktor: the value returned

vars == <<tex_dir, cwd, exitCode, disk, disk0, pc, todo, cur, content, content0, step, raised,
          ioFailed, writes, log, rule, parts, inDoc, outDoc, out2, phase,
          funktion, tex_pfad, dateien, dateien0, inhalt, lc_pc, ausgabe,
          args_config, yaml, CONFIG, LATEX_COMMANDS, MAKE_COMMANDS, HTML_COMMANDS, sa_pc, eingaben, aufrufe, sa_log,
          eingangs_pdf, startseite, endseite, komprimieren, writer, seitennummer, ausgangs_pdf, pe_pc, pe_fehler, pe_log,
          force, bilder, bilder0, ir_pc, ir_log,
          url, video_id, untertitel, audio_datei, text, yt_pc, yt_schritte, rueckgabe>>

fileVars == <<tex_dir, cwd, exitCode, disk, disk0, pc, todo, cur, content, content0, step, raised,
              ioFailed, writes, log>>

ruleVars == <<rule, parts, inDoc, outDoc, out2, phase>>

toolVars == <<funktion, tex_pfad, dateien, dateien0, inhalt, lc_pc, ausgabe>>

menuVars == <<args_config, yaml, CONFIG, LATEX_COMMANDS, MAKE_COMMANDS, HTML_COMMANDS, sa_pc, eingaben, aufrufe, sa_log>>

pdfVars == <<eingangs_pdf, startseite, endseite, komprimieren, writer, seitennummer, ausgangs_pdf, pe_pc, pe_fehler, pe_log>>

imgVars == <<force, bilder, bilder0, ir_pc, ir_log>>

ytVars == <<url, video_id, untertitel, audio_datei, text, yt_pc, yt_schritte, rueckgabe>>

-----------------------------------------------------------------------------
(* Token sequences: the string operations the code uses.                   *)

\* s[i:] of Python, 1-based: the tokens of s from position i on
DropTo(s, i) == IF i > Len(s) THEN <<>> ELSE SubSeq(s, i, Len(s))

\* lit occurs in s starting at position i
OccursAt(s, i, lit) ==
    /\ i >= 1
    /\ i + Len(lit) - 1 <= Len(s)
    /\ \A k \in 1..Len(lit) : s[i + k - 1] = lit[k]

\* the least element of a non-empty set of positions, 0 for the empty set
Least(S) == IF S = {} THEN 0 ELSE CHOOSE j \in S : \A k \in S : j <= k

\* str.find: the least position >= i where lit occurs, 0 if there is none
Find(s, i, lit) == Least({j \in i..Len(s) : OccursAt(s, j, lit)})

\* "lit in s"
Contains(s, lit) == Find(s, 1, lit) # 0

\* str.replace(old, new): every non-overlapping occurrence, left to right
RECURSIVE ReplaceFrom(_, _, _, _)
ReplaceFrom(s, i, old, new) ==
    LET j == Find(s, i, old)
    IN  IF j = 0 THEN DropTo(s, i)
        ELSE SubSeq(s, i, j - 1) \o new \o ReplaceFrom(s, j + Len(old), old, new)

Replace(s, old, new) == ReplaceFrom(s, 1, old, new)

\* str.count(lit): the number of non-overlapping occurrences
RECURSIVE CountFrom(_, _, _)
CountFrom(s, i, lit) ==
    LET j == Find(s, i, lit)
    IN  IF j = 0 THEN 0 ELSE 1 + CountFrom(s, j + Len(lit), lit)

Count(s, lit) == CountFrom(s, 1, lit)

\* the characters str.splitlines breaks a line at
LineBreaks == {"\n", "\f"}

\* the characters \s of a regular expression and str.strip treat as blank
Blanks == {" ", "\t", "\n", "\f"}

\* the least position >= i of s that holds none of the characters of set
SkipOver(s, i, set) ==
    LET j == Least({k \in i..Len(s) : s[k] \notin set})
    IN  IF j = 0 THEN Len(s) + 1 ELSE j

\* the least position >= i of s that holds tok, 0 if there is none
FirstTok(s, i, tok) == Find(s, i, <<tok>>)

\* str.lstrip
LStrip(s) == DropTo(s, SkipOver(s, 1, Blanks))

\* str.strip
Strip(s) ==
    LET keep == {j \in 1..Len(s) : s[j] \notin Blanks}
    IN  IF keep = {} THEN <<>>
        ELSE SubSeq(s, CHOOSE j \in keep : \A k \in keep : j <= k,
                       CHOOSE j \in keep : \A k \in keep : j >= k)

\* str.splitlines: the lines of s without their line breaks; a last line
\* is reported only when it is not empty
RECURSIVE SplitLinesFrom(_, _)
SplitLinesFrom(s, i) ==
    LET j == Least({k \in i..Len(s) : s[k] \in LineBreaks})
    IN  IF i > Len(s) THEN <<>>
        ELSE IF j = 0 THEN <<DropTo(s, i)>>
        ELSE <<SubSeq(s, i, j - 1)>> \o SplitLinesFrom(s, j + 1)

SplitLines(s) == SplitLinesFrom(s, 1)

\* sep.join(lines)
RECURSIVE Join(_, _)
Join(lines, sep) ==
    IF lines = <<>> THEN <<>>
    ELSE IF Len(lines) = 1 THEN lines[1]
    ELSE lines[1] \o sep \o Join(Tail(lines), sep)

\* n copies of tok
RECURSIVE Times(_, _)
Times(tok, n) == IF n <= 0 THEN <<>> ELSE <<tok>> \o Times(tok, n - 1)

-----------------------------------------------------------------------------
(* Config and the tables of LatexProcessor.__init__                        *)

\* Config.timestamp: strftime("%d-%b-%y") of the day of the run
timestamp == "01-Nov-26"

default_image_width == "0.8"

default_image_height == "0.6"

label_replacements ==
    << <<"uxfc", "ue">>, <<"uxf6", "oe">>, <<"uxe4", "ae">>, <<"uxdf", "ss">> >>

table_patterns ==
    << <<"\\toprule", "\\noalign", "{", "}", "\n">>,
       <<"\\noalign", "{", "}", "\n", "\\endhead", "\n">>,
       <<"\\bottomrule", "\\noalign", "{", "}", "\n", "\\endlastfoot", "\n">> >>

\* the backquote character
Backquote == "<backquote>"

simple_replacements ==
    << << <<",", "height", "=", "\\textheight">>, <<>> >>,
       << <<Backquote, Backquote>>, <<">", ">">> >>,
       << <<"'", "'">>, <<"<", "<">> >>,
       << <<"\\tightlist">>, <<>> >>,
       << <<"\\midrule">>,
          <<"\\midrule", "[", "\\heavyrulewidth", "]", "\n">> >> >>

-----------------------------------------------------------------------------
(* Rule 1: the timestamp banner                                            *)

BannerPrefix == <<"%", " ", "ju">>

\* line.strip().startswith("% ju")
IsBannerLine(line) == OccursAt(LStrip(line), 1, BannerPrefix)

\* [line for line in lines if not line.strip().startswith("% ju")]
RECURSIVE DropBannerLines(_)
DropBannerLines(lines) ==
    IF lines = <<>> THEN <<>>
    ELSE (IF IsBannerLine(lines[1]) THEN <<>> ELSE <<lines[1]>>)
         \o DropBannerLines(Tail(lines))

\* the banner is prepended and the old banner lines are kept
add_comment_without_removing(doc, filename) ==
    Join(<<BannerPrefix \o <<" ", timestamp, " ", filename>> >> \o SplitLines(doc),
         <<"\n">>)

add_or_replace_comment(doc, filename) ==
    LET new_comment == BannerPrefix \o <<" ", timestamp, " ", filename>>
        lines == DropBannerLines(SplitLines(doc))
    IN  Join(<<new_comment>> \o lines, <<"\n">>)

-----------------------------------------------------------------------------
(* Rule 2: figure blocks                                                   *)

create_image_options ==
    <<"[", "width", "=", default_image_width, "\\textwidth", ",",
      "height", "=", default_image_height, "\\textheight", ",",
      "keepaspectratio", "]">>

FigureBegin == <<"\\begin", "{", "figure", "}">>

FigurePlaceholders ==
    <<"\n", "%", "\\floatnotes", "{", "}", "\n", "%", "\\label", "{", "fig:", "}">>

\* _figure_pattern tried at position i: a record of the group boundaries,
\* or ok = FALSE.  inc is the position of \includegraphics, ob..cb the
\* bracketed options (ob = 0: the optional group took nothing), pb..pe the
\* braced path, which ends at the first closing brace.
figure_pattern(s, i) ==
    LET c   == SkipOver(s, i + Len(FigureBegin), Blanks)
        inc == SkipOver(s, c + 1, Blanks)
        q   == inc + 1
        cbs == {j \in (q + 1)..Len(s) :
                   /\ s[j] = "]"
                   /\ OccursAt(s, j + 1, <<"{">>)
                   /\ FirstTok(s, j + 2, "}") # 0}
        cb  == CHOOSE j \in cbs : \A k \in cbs : j <= k
        head == /\ OccursAt(s, i, FigureBegin)
                /\ OccursAt(s, c, <<"\\centering">>)
                /\ OccursAt(s, inc, <<"\\includegraphics">>)
    IN  IF ~head THEN [ok |-> FALSE]
        ELSE IF OccursAt(s, q, <<"[">>) /\ cbs # {}
             THEN [ok |-> TRUE, inc |-> inc, ob |-> q, cb |-> cb,
                   pb |-> cb + 1, pe |-> FirstTok(s, cb + 2, "}")]
        ELSE IF OccursAt(s, q, <<"{">>) /\ FirstTok(s, q + 1, "}") # 0
             THEN [ok |-> TRUE, inc |-> inc, ob |-> 0, cb |-> 0,
                   pb |-> q, pe |-> FirstTok(s, q + 1, "}")]
        ELSE [ok |-> FALSE]

\* options without a size are overwritten by the defaults, not extended
repl_figure_overwriting(before, includegraphics, options, path) ==
    LET opts ==
          IF options = <<>> \/ (~Contains(options, <<"width", "=">>)
                                /\ ~Contains(options, <<"height", "=">>))
          THEN create_image_options
          ELSE options
    IN  before \o includegraphics \o opts \o path \o FigurePlaceholders

\* _repl_figure on the groups (before, includegraphics, options, path);
\* options = <<>> stands for the group that did not take part (None)
repl_figure(before, includegraphics, options, path) ==
    LET opts ==
          IF options = <<>> THEN create_image_options
          ELSE IF ~Contains(options, <<"width", "=">>)
                  /\ ~Contains(options, <<"height", "=">>)
               THEN SubSeq(options, 1, Len(options) - 1) \o <<",">>
                    \o Tail(create_image_options)
               ELSE options
    IN  before \o includegraphics \o opts \o path \o FigurePlaceholders

RECURSIVE FigureSub(_, _)
FigureSub(s, i) ==
    LET j == Least({k \in i..Len(s) : figure_pattern(s, k).ok})
        m == figure_pattern(s, j)
    IN  IF j = 0 THEN DropTo(s, i)
        ELSE SubSeq(s, i, j - 1)
             \o repl_figure(SubSeq(s, j, m.inc - 1), <<s[m.inc]>>,
                             IF m.ob = 0 THEN <<>> ELSE SubSeq(s, m.ob, m.cb),
                             SubSeq(s, m.pb, m.pe))
             \o FigureSub(s, m.pe + 1)

update_figure_environment(doc) == FigureSub(doc, 1)

-----------------------------------------------------------------------------
(* Rule 3: literal substitutions                                           *)

RECURSIVE ReplaceAll(_, _)
ReplaceAll(s, table) ==
    IF table = <<>> THEN s
    ELSE ReplaceAll(Replace(s, table[1][1], table[1][2]), Tail(table))

apply_simple_replacements(doc) == ReplaceAll(doc, simple_replacements)

-----------------------------------------------------------------------------
(* Rule 4: labels                                                          *)

\* _label_pattern tried at position i: the position of the closing brace
\* ([^}]*? stops at the first one), 0 if there is no match
label_pattern(s, i) ==
    IF OccursAt(s, i, <<"\\label", "{">>) THEN FirstTok(s, i + 2, "}") ELSE 0

\* replacer: the label content with every table entry replaced
label_replacer(label_content) ==
    <<"\\label", "{">> \o ReplaceAll(label_content,
        [k \in 1..Len(label_replacements) |->
            << <<label_replacements[k][1]>>, <<label_replacements[k][2]>> >>])
    \o <<"}">>

RECURSIVE LabelSub(_, _)
LabelSub(s, i) ==
    LET j == Least({k \in i..Len(s) : label_pattern(s, k) # 0})
        e == label_pattern(s, j)
    IN  IF j = 0 THEN DropTo(s, i)
        ELSE SubSeq(s, i, j - 1) \o label_replacer(SubSeq(s, j + 2, e - 1))
             \o LabelSub(s, e + 1)

\* the table is applied to the whole document, not to the label arguments
replace_german_chars_everywhere(doc) ==
    ReplaceAll(doc,
        [k \in 1..Len(label_replacements) |->
            << <<label_replacements[k][1]>>, <<label_replacements[k][2]>> >>])

replace_german_chars_in_labels(doc) == LabelSub(doc, 1)

-----------------------------------------------------------------------------
(* Rule 5: inline code                                                     *)

CodeOpen == <<"\\passthrough", "{", "\\lstinline", "!">>

\* (.*) instead of (.*?): the payload runs to the last "!}" of the line
code_pattern_greedy(s, i) ==
    LET b    == i + Len(CodeOpen)
        ends == {e \in b..Len(s) :
                   /\ OccursAt(s, e, <<"!", "}">>)
                   /\ \A k \in b..(e - 1) : s[k] # "\n"}
    IN  IF OccursAt(s, i, CodeOpen) /\ ends # {}
        THEN CHOOSE e \in ends : \A k \in ends : e >= k
        ELSE 0

\* _code_pattern tried at position i: the position of the closing "!}" that
\* (.*?) reaches first without crossing a newline, 0 if there is no match
code_pattern(s, i) ==
    LET b == i + Len(CodeOpen)
        e == Find(s, b, <<"!", "}">>)
    IN  IF OccursAt(s, i, CodeOpen) /\ e # 0
           /\ \A k \in b..(e - 1) : s[k] # "\n"
        THEN e ELSE 0

RECURSIVE CodeSub(_, _)
CodeSub(s, i) ==
    LET j == Least({k \in i..Len(s) : code_pattern(s, k) # 0})
        e == code_pattern(s, j)
    IN  IF j = 0 THEN DropTo(s, i)
        ELSE SubSeq(s, i, j - 1)
             \o <<"\\verb", "|">> \o SubSeq(s, j + Len(CodeOpen), e - 1) \o <<"|">>
             \o CodeSub(s, e + 2)

convert_code_blocks(doc) == CodeSub(doc, 1)

-----------------------------------------------------------------------------
(* Rule 6: longtable to table                                              *)

LongtableOpen ==
    <<"\\begin", "{", "longtable", "}", "[", "]", "{", "@", "{", "}">>

ColsClose == <<"@", "{", "}", "}">>

LongtableEnd == <<"\\end", "{", "longtable", "}">>

\* _longtable_pattern tried at position i: ce is where the "@{}}" closing
\* the column definitions starts, ee where \end{longtable} starts
longtable_pattern(s, i) ==
    LET ce == Find(s, i + Len(LongtableOpen), ColsClose)
        ee == IF ce = 0 THEN 0 ELSE Find(s, ce + Len(ColsClose), LongtableEnd)
    IN  IF OccursAt(s, i, LongtableOpen) /\ ce # 0 /\ ee # 0
        THEN [ok |-> TRUE, ce |-> ce, ee |-> ee]
        ELSE [ok |-> FALSE]

\* _clean_table_content: re.sub(pattern, "", content) for each pattern
clean_table_content(body) ==
    ReplaceAll(body, [k \in 1..Len(table_patterns) |-> <<table_patterns[k], <<>> >>])

create_table_environment(col_defs, body) ==
    <<"\\begin", "{", "table", "}", "[", "ht", "]", "\n",
      " ", " ", "%", "\\caption", "{", "}", "\n",
      " ", " ", "%", "\\label", "{", "tab:my-table", "}", "\n",
      " ", " ", "\\begin", "{", "tabular", "}", "{", "@", "{", "}">>
    \o col_defs \o <<"@", "{", "}", "}", "\n",
      " ", " ", "\\toprule", "\n">>
    \o body
    \o <<" ", " ", "\\bottomrule", "\n",
         " ", " ", "\\end", "{", "tabular", "}", "%", "\n",
         "\\end", "{", "table", "}">>

RECURSIVE LongtableSub(_, _)
LongtableSub(s, i) ==
    LET j == Least({k \in i..Len(s) : longtable_pattern(s, k).ok})
        m == longtable_pattern(s, j)
    IN  IF j = 0 THEN DropTo(s, i)
        ELSE SubSeq(s, i, j - 1)
             \o create_table_environment(
                    SubSeq(s, j + Len(LongtableOpen), m.ce - 1),
                    clean_table_content(
                        SubSeq(s, m.ce + Len(ColsClose), m.ee - 1)))
             \o LongtableSub(s, m.ee + Len(LongtableEnd))

convert_longtable_to_table(doc) == LongtableSub(doc, 1)

-----------------------------------------------------------------------------
(* Rule 7: table re-flow                                                   *)

TabularOpen == <<"\\begin", "{", "tabular", "}", "{", "@", "{", "}">>

TabularEnd == <<"\\end", "{", "tabular", "}">>

\* the pattern of _adjust_table_format tried at position i: the position
\* where the first \end{tabular} after the opening starts, 0 if no match
adjust_pattern(s, i) ==
    LET gt == SkipOver(s, i + Len(TabularOpen), Blanks)
        rr == SkipOver(s, gt + 1, Blanks)
    IN  IF /\ OccursAt(s, i, TabularOpen)
           /\ OccursAt(s, gt, <<">">>)
           /\ OccursAt(s, rr, <<"{", "\\raggedright">>)
        THEN Find(s, rr + 2, TabularEnd)
        ELSE 0

\* _minipage_pattern tried at position i: the position after the match, 0
\* if there is none (neither .*? crosses a newline)
minipage_pattern(s, i) ==
    LET ob  == i + 4
        cbs == {j \in (ob + 1)..Len(s) :
                  /\ s[j] = "]" /\ OccursAt(s, j + 1, <<"{">>)
                  /\ \A k \in (ob + 1)..(j - 1) : s[k] # "\n"
                  /\ \E e \in (j + 2)..Len(s) :
                        /\ OccursAt(s, e, <<"}", "\\raggedright">>)
                        /\ \A k \in (j + 2)..(e - 1) : s[k] # "\n"}
        cb  == CHOOSE j \in cbs : \A k \in cbs : j <= k
        es  == {e \in (cb + 2)..Len(s) :
                  /\ OccursAt(s, e, <<"}", "\\raggedright">>)
                  /\ \A k \in (cb + 2)..(e - 1) : s[k] # "\n"}
    IN  IF OccursAt(s, i, <<"\\begin", "{", "minipage", "}", "[">>) /\ cbs # {}
        THEN (CHOOSE e \in es : \A k \in es : e <= k) + 2
        ELSE IF OccursAt(s, i, <<"\\end", "{", "minipage", "}">>)
        THEN i + 4
        ELSE 0

RECURSIVE MinipageSub(_, _)
MinipageSub(s, i) ==
    LET j == Least({k \in i..Len(s) : minipage_pattern(s, k) # 0})
    IN  IF j = 0 THEN DropTo(s, i)
        ELSE SubSeq(s, i, j - 1) \o MinipageSub(s, minipage_pattern(s, j))

ExtractFailed == <<"Inhalt konnte nicht extrahiert werden.">>

\* nothing is put in the place of content that is not found
extract_table_content_or_nothing(tab) ==
    LET t == FirstTok(tab, 1, "\\toprule")
        b == IF t = 0 THEN 0 ELSE FirstTok(tab, t + 1, "\\bottomrule")
    IN  IF b = 0 THEN <<>>
        ELSE Strip(MinipageSub(SubSeq(tab, t + 1, b - 1), 1))

\* _extract_table_content: the text between the first \toprule and the
\* first \bottomrule after it, without minipage wrappers, stripped
extract_table_content(tab) ==
    LET t == FirstTok(tab, 1, "\\toprule")
        b == IF t = 0 THEN 0 ELSE FirstTok(tab, t + 1, "\\bottomrule")
    IN  IF b = 0 THEN ExtractFailed
        ELSE Strip(MinipageSub(SubSeq(tab, t + 1, b - 1), 1))

RowEnd == <<"\\\\">>

\* the separators are counted and not divided by the rows
calculate_columns_undivided(cells) ==
    IF ~Contains(cells, RowEnd) THEN 1 ELSE Count(cells, <<"&">>) + 1

calculate_columns(cells) ==
    IF ~Contains(cells, RowEnd) THEN 1
    ELSE (Count(cells, <<"&">>) \div Count(cells, RowEnd)) + 1

create_adjusted_table(cells, cols_count) ==
    TabularOpen \o Times("l", cols_count)
    \o <<"@", "{", "}", "}", "\n", "\\toprule", "\n">>
    \o cells
    \o <<"\n", "\\bottomrule", "\n", "\\end", "{", "tabular", "}">>

adjust_table_structure(tab) ==
    LET table_content == extract_table_content(tab)
    IN  create_adjusted_table(table_content, calculate_columns(table_content))

RECURSIVE AdjustSub(_, _)
AdjustSub(s, i) ==
    LET j == Least({k \in i..Len(s) : adjust_pattern(s, k) # 0})
        e == adjust_pattern(s, j)
    IN  IF j = 0 THEN DropTo(s, i)
        ELSE SubSeq(s, i, j - 1)
             \o adjust_table_structure(SubSeq(s, j, e + Len(TabularEnd) - 1))
             \o AdjustSub(s, e + Len(TabularEnd))

adjust_table_format(doc) == AdjustSub(doc, 1)

-----------------------------------------------------------------------------
(* Rule 8: math delimiters                                                 *)

\* the pattern without the escaping backslashes: every parenthesis matches
convert_math_delimiters_unescaped(doc) ==
    [k \in 1..Len(doc) |-> IF doc[k] \in {"\\(", "\\)", "(", ")"} THEN "$" ELSE doc[k]]

\* only the opener is replaced
convert_math_openers_only(doc) ==
    [k \in 1..Len(doc) |-> IF doc[k] = "\\(" THEN "$" ELSE doc[k]]

\* _math_pattern.sub("$", content); a token is a whole control sequence,
\* "\\(" and "\\)" are the two the pattern matches
convert_math_delimiters(doc) ==
    [k \in 1..Len(doc) |-> IF doc[k] \in {"\\(", "\\)"} THEN "$" ELSE doc[k]]

-----------------------------------------------------------------------------
(* Rule 9: the \pandocbounded wrapper                                      *)

\* _pandoc_pattern tried at position i: the position of the first closing
\* brace, which (.*?) must reach without crossing a newline; 0 if no match
pandoc_pattern(s, i) ==
    LET e == FirstTok(s, i + 2, "}")
    IN  IF OccursAt(s, i, <<"\\pandocbounded", "{">>) /\ e # 0
           /\ \A k \in (i + 2)..(e - 1) : s[k] # "\n"
        THEN e ELSE 0

RECURSIVE PandocSub(_, _)
PandocSub(s, i) ==
    LET j == Least({k \in i..Len(s) : pandoc_pattern(s, k) # 0})
        e == pandoc_pattern(s, j)
    IN  IF j = 0 THEN DropTo(s, i)
        ELSE SubSeq(s, i, j - 1) \o SubSeq(s, j + 2, e - 1) \o PandocSub(s, e + 1)

remove_pandoc_bounded(doc) == PandocSub(doc, 1)

-----------------------------------------------------------------------------
(* _apply_all_transformations: the nine rules in the order of the list     *)

NumRules == 9

\* the list with its second and its last entry exchanged
transform_reordered(k, doc, filename) ==
    CASE k = 1 -> add_or_replace_comment(doc, filename)
      [] k = 2 -> remove_pandoc_bounded(doc)
      [] k = 3 -> apply_simple_replacements(doc)
      [] k = 4 -> replace_german_chars_in_labels(doc)
      [] k = 5 -> convert_code_blocks(doc)
      [] k = 6 -> convert_longtable_to_table(doc)
      [] k = 7 -> adjust_table_format(doc)
      [] k = 8 -> convert_math_delimiters(doc)
      [] k = 9 -> update_figure_environment(doc)

transform(k, doc, filename) ==
    CASE k = 1 -> add_or_replace_comment(doc, filename)
      [] k = 2 -> update_figure_environment(doc)
      [] k = 3 -> apply_simple_replacements(doc)
      [] k = 4 -> replace_german_chars_in_labels(doc)
      [] k = 5 -> convert_code_blocks(doc)
      [] k = 6 -> convert_longtable_to_table(doc)
      [] k = 7 -> adjust_table_format(doc)
      [] k = 8 -> convert_math_delimiters(doc)
      [] k = 9 -> remove_pandoc_bounded(doc)

transform_names ==
    <<"_add_or_replace_comment", "_update_figure_environment",
      "_apply_simple_replacements", "_replace_german_chars_in_labels",
      "_convert_code_blocks", "_convert_longtable_to_table",
      "_adjust_table_format", "_convert_math_delimiters",
      "_remove_pandoc_bounded">>

-----------------------------------------------------------------------------
(* The run: main, process_files and _process_single_file                   *)

\* the .tex files the directory may hold
Files == {"a.tex", "b.tex"}

\* the most exceptions the transformations of one run raise
MaxRaises == 1

\* the most read_text / write_text calls of one run that fail
MaxIOFailures == 1

CodeItem(payload) == CodeOpen \o payload \o <<"!", "}">>

\* a figure as pandoc writes it, the image inside \pandocbounded
DocFigure ==
    FigureBegin \o <<"\n", "\\centering", "\n", "\\pandocbounded", "{",
      "\\includegraphics", "[", "keepaspectratio", "]", "{", "a.png", "}", "}",
      "\n">>

\* an old banner, a label, inline math, quotes, a list and inline code
DocText ==
    <<"%", " ", "ju", " ", "old", "\n", "\\label", "{", "uxfc", "}", " ",
      "\\(", "x", "\\)", " ", Backquote, Backquote, "x", "'", "'", "\\tightlist", "\n">>
    \o CodeItem(<<"\\(", "y">>) \o <<"\n", "\n">>

\* a longtable with a header row, and a tabular with ragged-right columns
DocTable ==
    LongtableOpen \o <<"l", "l">> \o ColsClose \o <<"\n">>
    \o table_patterns[1] \o <<"A", "&", "B", "\\\\", "\n", "\\midrule">>
    \o table_patterns[2] \o table_patterns[3]
    \o <<"1", "&", "2", "\\\\", "\n">> \o LongtableEnd \o <<"\n">>
    \o TabularOpen \o <<">", "{", "\\raggedright", "}", "p", "@", "{", "}", "}",
         "\n", "\\toprule", "\n", "x", "&", "y", "\\\\", "\n", "\\bottomrule",
         "\n">> \o TabularEnd

InitDocs == {DocFigure, DocText, DocTable}

\* every order in which glob may list the files of set S
Orders(S) ==
    {o \in [1..Cardinality(S) -> S] : \A i, j \in 1..Cardinality(S) : i # j => o[i] # o[j]}

Raises == Cardinality({e \in DOMAIN log : log[e].msg = "Fehler bei Transformation"})

IOFailures == Cardinality({f \in DOMAIN ioFailed : ioFailed[f] # ""})

RuleIdle ==
    /\ rule = 0 /\ parts = <<>> /\ inDoc = <<>> /\ outDoc = <<>> /\ out2 = <<>>
    /\ phase = "file"

\* no function of latexcode_entfernen2 is running
ToolIdle ==
    /\ funktion = "" /\ tex_pfad = <<>> /\ dateien = <<>> /\ dateien0 = <<>>
    /\ inhalt = <<>> /\ lc_pc = "idle" /\ ausgabe = <<>>

MenuIdle ==
    /\ args_config = ""
    /\ yaml = <<>>
    /\ CONFIG = <<>>
    /\ LATEX_COMMANDS = <<>>
    /\ MAKE_COMMANDS = <<>>
    /\ HTML_COMMANDS = <<>>
    /\ sa_pc = "idle"
    /\ eingaben = 0
    /\ aufrufe = <<>>
    /\ sa_log = <<>>

PdfIdle ==
    /\ eingangs_pdf = <<>>
    /\ startseite = 0
    /\ endseite = 0
    /\ komprimieren = FALSE
    /\ writer = <<>>
    /\ seitennummer = 0
    /\ ausgangs_pdf = <<>>
    /\ pe_pc = "idle"
    /\ pe_fehler = ""
    /\ pe_log = <<>>

ImgIdle ==
    /\ force = FALSE
    /\ bilder = <<>>
    /\ bilder0 = <<>>
    /\ ir_pc = <<>>
    /\ ir_log = <<>>

YtIdle ==
    /\ url = <<>>
    /\ video_id = <<>>
    /\ untertitel = <<>>
    /\ audio_datei = FALSE
    /\ text = ""
    /\ yt_pc = "idle"
    /\ yt_schritte = <<>>
    /\ rueckgabe = ""

\* the state when main calls process_files: any set of .tex files in ./tex
Init ==
    /\ tex_dir = <<"tex">>
    /\ cwd = <<"home">>
    /\ exitCode = -1
    /\ \E S \in SUBSET Files : disk \in [S -> InitDocs]
    /\ disk0 = disk
    /\ pc = "start"
    /\ todo = <<>>
    /\ cur = ""
    /\ content = <<>>
    /\ content0 = <<>>
    /\ step = 0
    /\ raised = [f \in DOMAIN disk |-> {}]
    /\ ioFailed = [f \in DOMAIN disk |-> ""]
    /\ writes = [f \in DOMAIN disk |-> 0]
    /\ log = <<>>
    /\ RuleIdle
    /\ ToolIdle
    /\ MenuIdle
    /\ PdfIdle
    /\ ImgIdle
    /\ YtIdle

Parent(path) == IF path = <<>> THEN <<>> ELSE SubSeq(path, 1, Len(path) - 1)

\* a directory without .tex files is treated like one that cannot be read
BeginNoFilesIsError ==
    /\ pc = "start"
    /\ \E order \in Orders(DOMAIN disk) :
         IF order = <<>>
         THEN /\ log' = log \o << [level |-> "INFO", msg |-> "Verarbeite Dateien in", args |-> <<"tex_dir">>],
                                  [level |-> "ERROR", msg |-> "Keine .tex-Dateien gefunden!", args |-> <<>>] >>
              /\ cwd' = Parent(cwd \o tex_dir)
              /\ pc' = "exit"
              /\ exitCode' = 1
              /\ todo' = todo
         ELSE /\ log' = log \o << [level |-> "INFO", msg |-> "Verarbeite Dateien in", args |-> <<"tex_dir">>],
                                  [level |-> "INFO", msg |-> "Gefundene .tex-Dateien", args |-> <<Len(order)>>] >>
              /\ cwd' = cwd \o tex_dir
              /\ pc' = "loop"
              /\ todo' = order
              /\ exitCode' = exitCode
    /\ UNCHANGED <<tex_dir, disk, disk0, cur, content, content0, step, raised, ioFailed, writes>>
    /\ UNCHANGED <<ruleVars, toolVars, menuVars, pdfVars, imgVars, ytVars>>

\* process_files up to the loop: chdir, glob; with no file, the warning,
\* the return through finally, and main's closing message
Begin ==
    /\ pc = "start"
    /\ \E order \in Orders(DOMAIN disk) :
         IF order = <<>>
         THEN /\ log' = log \o << [level |-> "INFO", msg |-> "Verarbeite Dateien in", args |-> <<"tex_dir">>],
                                  [level |-> "WARNING", msg |-> "Keine .tex-Dateien gefunden!", args |-> <<>>],
                                  [level |-> "INFO", msg |-> "Verarbeitung erfolgreich abgeschlossen!", args |-> <<>>] >>
              /\ cwd' = Parent(cwd \o tex_dir)
              /\ pc' = "done"
              /\ exitCode' = 0
              /\ todo' = todo
         ELSE /\ log' = log \o << [level |-> "INFO", msg |-> "Verarbeite Dateien in", args |-> <<"tex_dir">>],
                                  [level |-> "INFO", msg |-> "Gefundene .tex-Dateien", args |-> <<Len(order)>>] >>
              /\ cwd' = cwd \o tex_dir
              /\ pc' = "loop"
              /\ todo' = order
              /\ exitCode' = exitCode
    /\ UNCHANGED <<tex_dir, disk, disk0, cur, content, content0, step, raised, ioFailed, writes>>
    /\ UNCHANGED <<ruleVars, toolVars, menuVars, pdfVars, imgVars, ytVars>>

\* os.chdir or glob raises OSError: the error is logged, sys.exit(1) runs
\* through the finally clause
BeginOSError ==
    /\ pc = "start"
    /\ \E entered \in BOOLEAN :
         cwd' = Parent(IF entered THEN cwd \o tex_dir ELSE cwd)
    /\ log' = Append(log, [level |-> "ERROR", msg |-> "Fehler beim Zugriff auf Verzeichnis", args |-> <<"e">>])
    /\ pc' = "exit"
    /\ exitCode' = 1
    /\ UNCHANGED <<tex_dir, disk, disk0, todo, cur, content, content0, step, raised, ioFailed, writes>>
    /\ UNCHANGED <<ruleVars, toolVars, menuVars, pdfVars, imgVars, ytVars>>

\* the for loop hands the next file to _process_single_file, which logs it
NextFile ==
    /\ pc = "loop"
    /\ todo # <<>>
    /\ cur' = Head(todo)
    /\ todo' = Tail(todo)
    /\ log' = Append(log, [level |-> "INFO", msg |-> "Verarbeite", args |-> <<Head(todo)>>])
    /\ pc' = "read"
    /\ UNCHANGED <<tex_dir, cwd, exitCode, disk, disk0, content, content0, step, raised, ioFailed, writes>>
    /\ UNCHANGED <<ruleVars, toolVars, menuVars, pdfVars, imgVars, ytVars>>

\* file_path.read_text returns the file's text
ReadText ==
    /\ pc = "read"
    /\ content' = disk[cur]
    /\ content0' = disk[cur]
    /\ step' = 1
    /\ pc' = "transform"
    /\ UNCHANGED <<tex_dir, cwd, exitCode, disk, disk0, todo, cur, raised, ioFailed, writes, log>>
    /\ UNCHANGED <<ruleVars, toolVars, menuVars, pdfVars, imgVars, ytVars>>

\* without the except clause of _process_single_file the exception ends
\* the run in main
ReadTextRaisesUncaught ==
    /\ pc = "read"
    /\ IOFailures < MaxIOFailures
    /\ ioFailed' = [ioFailed EXCEPT ![cur] = "read"]
    /\ log' = Append(log, [level |-> "ERROR", msg |-> "Fehler bei der Verarbeitung", args |-> <<cur, "e">>])
    /\ cwd' = Parent(cwd)
    /\ pc' = "exit"
    /\ exitCode' = 1
    /\ UNCHANGED <<tex_dir, disk, disk0, todo, cur, content, content0, step, raised, writes>>
    /\ UNCHANGED <<ruleVars, toolVars, menuVars, pdfVars, imgVars, ytVars>>

\* file_path.read_text raises: the except clause of _process_single_file
ReadTextRaises ==
    /\ pc = "read"
    /\ IOFailures < MaxIOFailures
    /\ ioFailed' = [ioFailed EXCEPT ![cur] = "read"]
    /\ log' = Append(log, [level |-> "ERROR", msg |-> "Fehler bei der Verarbeitung von", args |-> <<cur, "e">>])
    /\ pc' = "loop"
    /\ UNCHANGED <<tex_dir, cwd, exitCode, disk, disk0, todo, cur, content, content0, step, raised, writes>>
    /\ UNCHANGED <<ruleVars, toolVars, menuVars, pdfVars, imgVars, ytVars>>

\* one iteration of the loop of _apply_all_transformations: the call returns
Transform ==
    /\ pc = "transform"
    /\ content' = transform(step, content, cur)
    /\ step' = step + 1
    /\ pc' = IF step = NumRules THEN "write" ELSE "transform"
    /\ UNCHANGED <<tex_dir, cwd, exitCode, disk, disk0, todo, cur, content0, raised, ioFailed, writes, log>>
    /\ UNCHANGED <<ruleVars, toolVars, menuVars, pdfVars, imgVars, ytVars>>

\* without the try of the loop the exception leaves _apply_all_transformations
\* and reaches the except clause of _process_single_file: nothing is written
TransformRaisesAborts ==
    /\ pc = "transform"
    /\ Raises < MaxRaises
    /\ raised' = [raised EXCEPT ![cur] = @ \cup {step}]
    /\ log' = Append(log, [level |-> "ERROR", msg |-> "Fehler bei Transformation", args |-> <<transform_names[step], "e">>])
    /\ pc' = "loop"
    /\ UNCHANGED <<tex_dir, cwd, exitCode, disk, disk0, todo, cur, content, content0, step, ioFailed, writes>>
    /\ UNCHANGED <<ruleVars, toolVars, menuVars, pdfVars, imgVars, ytVars>>

\* one iteration of the loop of _apply_all_transformations: the call raises,
\* content is not assigned, the error is logged with the function's name
TransformRaises ==
    /\ pc = "transform"
    /\ Raises < MaxRaises
    /\ raised' = [raised EXCEPT ![cur] = @ \cup {step}]
    /\ log' = Append(log, [level |-> "ERROR", msg |-> "Fehler bei Transformation", args |-> <<transform_names[step], "e">>])
    /\ step' = step + 1
    /\ pc' = IF step = NumRules THEN "write" ELSE "transform"
    /\ UNCHANGED <<tex_dir, cwd, exitCode, disk, disk0, todo, cur, content, content0, ioFailed, writes>>
    /\ UNCHANGED <<ruleVars, toolVars, menuVars, pdfVars, imgVars, ytVars>>

\* file_path.write_text stores content; the success message
\* the text is written over every file of the directory
WriteTextOverAll ==
    /\ pc = "write"
    /\ disk' = [f \in DOMAIN disk |-> content]
    /\ writes' = [writes EXCEPT ![cur] = @ + 1]
    /\ log' = Append(log, [level |-> "INFO", msg |-> "Erfolgreich verarbeitet", args |-> <<cur>>])
    /\ pc' = "loop"
    /\ UNCHANGED <<tex_dir, cwd, exitCode, disk0, todo, cur, content, content0, step, raised, ioFailed>>
    /\ UNCHANGED <<ruleVars, toolVars, menuVars, pdfVars, imgVars, ytVars>>

WriteText ==
    /\ pc = "write"
    /\ disk' = [disk EXCEPT ![cur] = content]
    /\ writes' = [writes EXCEPT ![cur] = @ + 1]
    /\ log' = Append(log, [level |-> "INFO", msg |-> "Erfolgreich verarbeitet", args |-> <<cur>>])
    /\ pc' = "loop"
    /\ UNCHANGED <<tex_dir, cwd, exitCode, disk0, todo, cur, content, content0, step, raised, ioFailed>>
    /\ UNCHANGED <<ruleVars, toolVars, menuVars, pdfVars, imgVars, ytVars>>

\* file_path.write_text raises, before the file is opened for writing
\* (the file keeps its text) or after (the file is left truncated)
WriteTextRaises ==
    /\ pc = "write"
    /\ IOFailures < MaxIOFailures
    /\ \E truncated \in BOOLEAN :
         disk' = IF truncated THEN [disk EXCEPT ![cur] = <<>>] ELSE disk
    /\ ioFailed' = [ioFailed EXCEPT ![cur] = "write"]
    /\ log' = Append(log, [level |-> "ERROR", msg |-> "Fehler bei der Verarbeitung von", args |-> <<cur, "e">>])
    /\ pc' = "loop"
    /\ UNCHANGED <<tex_dir, cwd, exitCode, disk0, todo, cur, content, content0, step, raised, writes>>
    /\ UNCHANGED <<ruleVars, toolVars, menuVars, pdfVars, imgVars, ytVars>>

\* the loop is over: finally, the return to main and its closing message
Finish ==
    /\ pc = "loop"
    /\ todo = <<>>
    /\ cwd' = Parent(cwd)
    /\ log' = Append(log, [level |-> "INFO", msg |-> "Verarbeitung erfolgreich abgeschlossen!", args |-> <<>>])
    /\ pc' = "done"
    /\ exitCode' = 0
    /\ UNCHANGED <<tex_dir, disk, disk0, todo, cur, content, content0, step, raised, ioFailed, writes>>
    /\ UNCHANGED <<ruleVars, toolVars, menuVars, pdfVars, imgVars, ytVars>>

Next ==
    \/ Begin
    \/ BeginOSError
    \/ NextFile
    \/ ReadText
    \/ ReadTextRaises
    \/ Transform
    \/ TransformRaises
    \/ WriteText
    \/ WriteTextRaises
    \/ Finish

Spec == Init /\ [][Next]_vars

-----------------------------------------------------------------------------
(* One rule on its own: the input documents are built from parts, whole    *)
(* constructs of the kind the rule rewrites and loose pieces of text.      *)
(* A part is [kind, toks, arg]: toks its text, arg what it was built from. *)

\* the most parts an input document is built from
MaxParts == 3

RECURSIVE Concat(_)
Concat(seqs) == IF seqs = <<>> THEN <<>> ELSE seqs[1] \o Concat(Tail(seqs))

Text(t) == [kind |-> "text", toks |-> t, arg |-> <<>>]

\* \begin{figure} ws \centering ws \includegraphics[items]{path}; brackets
\* is TRUE when the bracketed option list is written (it may be empty)
Fig(ws, brackets, items, path) ==
    [kind |-> "fig",
     toks |-> FigureBegin \o ws \o <<"\\centering">> \o ws \o <<"\\includegraphics">>
              \o (IF brackets THEN <<"[">> \o Join(items, <<",">>) \o <<"]">> ELSE <<>>)
              \o <<"{">> \o path \o <<"}">>,
     arg  |-> <<ws, path, IF brackets THEN <<"[">> ELSE <<>> >> \o items]

\* \label{arg}
Label(a) == [kind |-> "label", toks |-> <<"\\label", "{">> \o a \o <<"}">>, arg |-> <<a>>]

\* \passthrough{\lstinline!payload!}
Code(payload) == [kind |-> "code", toks |-> CodeItem(payload), arg |-> <<payload>>]

\* \pandocbounded{x}
Wrap(x) ==
    [kind |-> "wrap", toks |-> <<"\\pandocbounded", "{">> \o x \o <<"}">>, arg |-> <<x>>]

\* a longtable as pandoc writes it: header is the header row, <<>> for a
\* table without one; rows are the data rows
Longtable(cols, header, rows) ==
    [kind |-> "longtable",
     toks |-> LongtableOpen \o cols \o ColsClose \o <<"\n">>
              \o <<"\\toprule", "\\noalign", "{", "}", "\n">>
              \o (IF header = <<>> THEN <<>>
                  ELSE header \o <<"\\midrule", "\\noalign", "{", "}", "\n">>)
              \o <<"\\endhead", "\n">>
              \o <<"\\bottomrule", "\\noalign", "{", "}", "\n", "\\endlastfoot", "\n">>
              \o rows \o LongtableEnd,
     arg  |-> <<cols, header, rows>>]

\* a tabular with ragged-right paragraph columns around the given lines
RaggedTabular(inner) ==
    [kind |-> "tabular",
     toks |-> TabularOpen \o <<">", "{", "\\raggedright", "}", "p", "@", "{", "}", "}", "\n">>
              \o inner \o TabularEnd,
     arg  |-> <<inner>>]

ImageCmd == <<"\\includegraphics", "[", "keepaspectratio", "]", "{", "a.png", "}">>

Row1 == <<"1", "&", "2", "\\\\", "\n">>

Row2 == <<"3", "&", "4", "\\\\", "\n">>

RuleParts(k) ==
    CASE k = 1 ->
           {Text(<<"x">>), Text(<<"\n">>), Text(<<"\f">>), Text(<<" ">>),
            Text(<<"%">>), Text(BannerPrefix \o <<" ", "old">>)}
      [] k = 2 ->
           {Fig(<<>>, FALSE, <<>>, <<"a.png">>),
            Fig(<<"\n">>, FALSE, <<>>, <<"a.png">>),
            Fig(<<"\n">>, TRUE, <<>>, <<"a.png">>),
            Fig(<<"\n">>, TRUE, << <<"keepaspectratio">> >>, <<"a.png">>),
            Fig(<<"\n">>, TRUE, << <<"scale", "=", "2">>, <<"keepaspectratio">> >>, <<"b.png">>),
            Fig(<<"\n">>, TRUE, << <<"width", "=", "5cm">> >>, <<"a.png">>),
            Fig(<<" ">>, TRUE, << <<"keepaspectratio">>, <<"height", "=", "3cm">> >>, <<"b.png">>),
            Text(<<"x">>), Text(<<"\n">>), Text(<<"}">>),
            Text(<<"\\includegraphics", "{", "c.png", "}">>),
            Text(FigureBegin \o <<"\n", "\\centering", "\n">>)}
      [] k = 3 ->
           {Text(simple_replacements[1][1]), Text(simple_replacements[2][1]),
            Text(simple_replacements[3][1]), Text(simple_replacements[4][1]),
            Text(simple_replacements[5][1]), Text(<<Backquote>>), Text(<<"'">>),
            Text(<<",">>), Text(<<"height", "=", "\\textheight">>), Text(<<"x">>)}
      [] k = 4 ->
           {Label(<<"Kapitel", " ", "uxfc", "ber", " ", "Motoren">>),
            Label(<<"uxf6", "uxe4", "uxdf">>), Label(<<"x">>), Label(<<>>),
            Text(<<"uxfc">>), Text(<<"x", "uxdf">>), Text(<<"}">>), Text(<<"\n">>),
            Text(<<"\\label", "{">>), Text(<<"\\ref", "{", "uxe4", "}">>)}
      [] k = 5 ->
           {Code(<<"x">>), Code(<<"a", "|", "b">>), Code(<<"\\(", "{", "$", "}">>),
            Code(<<>>), Text(<<"x">>), Text(<<" ">>), Text(<<"\n">>),
            Text(<<"!", "}">>), Text(<<"}">>), Text(CodeOpen)}
      [] k = 6 ->
           {Longtable(<<"l", "l">>, <<"A", "&", "B", "\\\\", "\n">>, Row1),
            Longtable(<<"l", "l">>, <<"A", "&", "B", "\\\\", "\n">>, Row1 \o Row2),
            Longtable(<<"l", "l">>, <<>>, Row1),
            Longtable(<<"l", "r">>, <<>>, Row1 \o Row2),
            Text(<<"x">>), Text(<<"\n">>), Text(LongtableOpen), Text(ColsClose),
            Text(LongtableEnd), Text(<<"\\endhead", "\n">>)}
      [] k = 7 ->
           {RaggedTabular(<<"\\toprule", "\n", "x", "&", "y", "\\\\", "\n", "\\bottomrule", "\n">>),
            RaggedTabular(<<"\\toprule", "\n", "a", "&", "b", "&", "c", "\\\\", "\n",
                            "d", "&", "e", "&", "f", "&", "g", "\\\\", "\n", "\\bottomrule", "\n">>),
            RaggedTabular(<<"\\toprule", "\n", "x", "&", "y", "\n", "\\bottomrule", "\n">>),
            RaggedTabular(<<"x", "\n">>),
            RaggedTabular(<<"\\toprule", "\n", "x", "&", "y", "\\\\", "\n">>),
            Text(TabularOpen), Text(<<">">>), Text(<<"{", "\\raggedright">>),
            Text(TabularEnd), Text(<<"x">>), Text(<<"\n">>)}
      [] k = 8 ->
           {Text(<<"\\(">>), Text(<<"\\)">>), Text(<<"$">>), Text(<<"x">>),
            Text(<<"+">>), Text(<<"\n">>), Text(<<"(">>), Text(<<"\\[">>),
            Text(<<"x", "+", "y">>)}
      [] k = 9 ->
           {Wrap(<<"x">>), Wrap(<<>>), Wrap(ImageCmd), Wrap(ImageCmd \o <<" ", "x">>),
            Wrap(<<"\\pandocbounded", "{", "x", "}">>),
            Text(<<"x">>), Text(<<"\n">>), Text(<<"}">>), Text(<<"{">>),
            Text(<<"\\pandocbounded", "{">>)}

\* the documents of at most n parts for rule k
PartSeqs(k, n) == UNION {[1..m -> RuleParts(k)] : m \in 0..n}

FileIdle ==
    /\ tex_dir = <<"tex">> /\ cwd = <<"home">> /\ exitCode = -1
    /\ disk = <<>> /\ disk0 = <<>> /\ pc = "idle" /\ todo = <<>> /\ cur = "a.tex"
    /\ content = <<>> /\ content0 = <<>> /\ step = 0 /\ raised = <<>>
    /\ ioFailed = <<>> /\ writes = <<>> /\ log = <<>>

RuleInit(K, n) ==
    /\ FileIdle
    /\ ToolIdle
    /\ MenuIdle
    /\ PdfIdle
    /\ ImgIdle
    /\ YtIdle
    /\ rule \in K
    /\ parts \in PartSeqs(rule, n)
    /\ inDoc = Concat([i \in DOMAIN parts |-> parts[i].toks])
    /\ outDoc = <<>>
    /\ out2 = <<>>
    /\ phase = "in"

\* the rule is applied to the input document
Apply ==
    /\ phase = "in"
    /\ outDoc' = transform(rule, inDoc, cur)
    /\ phase' = "once"
    /\ UNCHANGED <<rule, parts, inDoc, out2>>
    /\ UNCHANGED <<fileVars, toolVars, menuVars, pdfVars, imgVars, ytVars>>

\* the rule is applied to its own output
Reapply ==
    /\ phase = "once"
    /\ out2' = transform(rule, outDoc, cur)
    /\ phase' = "twice"
    /\ UNCHANGED <<rule, parts, inDoc, outDoc>>
    /\ UNCHANGED <<fileVars, toolVars, menuVars, pdfVars, imgVars, ytVars>>

RuleNext == Apply

TwiceNext == Apply \/ Reapply

\* the most parts of a document when all nine rules are tried
MaxPartsAll == 2

SpecRules == RuleInit(1..NumRules, MaxPartsAll) /\ [][RuleNext]_vars

SpecBanner == RuleInit({1}, MaxParts) /\ [][TwiceNext]_vars

SpecFigure == RuleInit({2}, MaxParts) /\ [][RuleNext]_vars

SpecLabel == RuleInit({4}, MaxParts) /\ [][RuleNext]_vars

SpecCode == RuleInit({5}, MaxParts) /\ [][RuleNext]_vars

SpecLongtable == RuleInit({6}, MaxParts) /\ [][RuleNext]_vars

SpecPandoc == RuleInit({9}, MaxParts) /\ [][RuleNext]_vars

SpecMath == RuleInit({8}, MaxParts) /\ [][RuleNext]_vars

SpecReflow == RuleInit({7}, MaxParts) /\ [][RuleNext]_vars

SpecLiteral == RuleInit({3}, MaxParts) /\ [][RuleNext]_vars

-----------------------------------------------------------------------------
(* Properties of the run                                                   *)

\* the nine rules composed in the order of the list, none skipped
Pipeline(doc, filename) ==
    remove_pandoc_bounded(
     convert_math_delimiters(
      adjust_table_format(
       convert_longtable_to_table(
        convert_code_blocks(
         replace_german_chars_in_labels(
          apply_simple_replacements(
           update_figure_environment(
            add_or_replace_comment(doc, filename)))))))))

\* the first n rules in order without the ones in skip
RECURSIVE ChainUpTo(_, _, _, _)
ChainUpTo(doc, filename, skip, n) ==
    IF n = 0 THEN doc
    ELSE LET before == ChainUpTo(doc, filename, skip, n - 1)
         IN  IF n \in skip THEN before ELSE transform(n, before, filename)

\* the sets of rules that may have raised in one file
SkipSets == {sk \in SUBSET (1..NumRules) : Cardinality(sk) <= MaxRaises}

\* ChainUpTo and Pipeline tabulated for the documents of the directory
\* (@@ <<>> makes the table an explicit function, computed once)
Outcome ==
    [doc \in InitDocs, f \in Files, sk \in SkipSets |->
        ChainUpTo(doc, f, sk, NumRules)] @@ <<>>

PipelineOutcome == [doc \in InitDocs, f \in Files |-> Pipeline(doc, f)] @@ <<>>

Waiting == {todo[i] : i \in DOMAIN todo}

\* _process_single_file has returned for file f
Finished(f) ==
    /\ pc \in {"loop", "read", "transform", "write", "done"}
    /\ f \notin Waiting
    /\ ~(cur = f /\ pc \in {"read", "transform", "write"})

ErrorLogged(f) ==
    \E e \in DOMAIN log :
       /\ log[e].level = "ERROR"
       /\ log[e].msg = "Fehler bei der Verarbeitung von"
       /\ log[e].args[1] = f

\* C1: when a rule raises, content stays as it was before that rule, the
\* remaining rules are applied in order to that text, the file is written
\* with the result, and the other files of the run are processed too.
C1_RaisingRuleIsSkipped ==
    /\ pc = "transform" => step \in 1..NumRules /\ raised[cur] \subseteq 1..(step - 1)
    /\ pc = "write" => content = Outcome[content0, cur, raised[cur]]
    /\ \A f \in DOMAIN disk :
          Finished(f) /\ ioFailed[f] = ""
          => /\ writes[f] = 1
             /\ disk[f] = Outcome[disk0[f], f, raised[f]]
    /\ pc = "done" => \A f \in DOMAIN disk : Finished(f)
    /\ pc = "exit" => \A f \in DOMAIN disk : raised[f] = {}

\* C1 witness: a run of two files has ended, a rule raised in one of them,
\* the skipped rule shows in that file's text, and both files are written
C1_Witness ==
    /\ pc = "done"
    /\ DOMAIN disk = Files
    /\ \A f \in Files : writes[f] = 1
    /\ \E f \in Files :
          /\ raised[f] # {}
          /\ disk[f] # PipelineOutcome[disk0[f], f]
          /\ disk[f] # disk0[f]

\* C2: every .tex file of the directory is read whole, the nine rules are
\* applied in the fixed order, each to the output of the one before, and
\* the final text is written to the same file exactly once (no rule raising,
\* no read or write failing).
C2_RulesFoldedInOrder ==
    /\ \A f \in DOMAIN disk : writes[f] <= 1
    /\ pc = "transform" => content0 = disk0[cur]
    /\ \A f \in DOMAIN disk :
          Finished(f) /\ ioFailed[f] = "" /\ raised[f] = {}
          => /\ writes[f] = 1
             /\ disk[f] = PipelineOutcome[disk0[f], f]
    /\ pc = "done" => \A f \in DOMAIN disk : Finished(f)

\* C2 witness: the run has ended and a file was rewritten with the result
\* of the whole chain
C2_Witness ==
    /\ pc = "done"
    /\ \E f \in DOMAIN disk :
          /\ raised[f] = {} /\ ioFailed[f] = "" /\ writes[f] = 1
          /\ disk[f] = PipelineOutcome[disk0[f], f]
          /\ disk[f] # disk0[f]

\* C3: a failed read or write is reported for that file and no further step
\* is performed on it (a file that could not be read keeps its text on
\* disk); every other file goes through the whole chain and is written.
C3_IOFailureIsolated ==
    /\ \A f \in DOMAIN disk :
          ioFailed[f] = "read"
          => disk[f] = disk0[f] /\ writes[f] = 0 /\ raised[f] = {} /\ ErrorLogged(f)
    /\ \A f \in DOMAIN disk :
          ioFailed[f] = "write" => writes[f] = 0 /\ ErrorLogged(f)
    /\ \A f \in DOMAIN disk :
          ioFailed[f] # "" /\ cur = f => pc \in {"loop", "done"}
    /\ \A f \in DOMAIN disk : ioFailed[f] # "" => pc # "exit"
    /\ pc = "done"
       => \A g \in DOMAIN disk :
             /\ Finished(g)
             /\ ioFailed[g] = ""
                => /\ writes[g] = 1
                   /\ disk[g] = Outcome[disk0[g], g, raised[g]]

\* C3 witness: the run has ended, one file could not be read, the other
\* one was transformed and written
C3_Witness ==
    /\ pc = "done"
    /\ \E f, g \in DOMAIN disk :
          /\ f # g
          /\ ioFailed[f] = "read"
          /\ writes[g] = 1
          /\ disk[g] # disk0[g]

-----------------------------------------------------------------------------
(* Properties of one rule on its own                                       *)

NewBanner == BannerPrefix \o <<" ", timestamp, " ", cur>>

\* document doc holds no instance of what rule k rewrites
Absent(k, doc) ==
    CASE k = 1 -> \A n \in DOMAIN SplitLines(doc) : ~IsBannerLine(SplitLines(doc)[n])
      [] k = 2 -> \A i \in DOMAIN doc : ~figure_pattern(doc, i).ok
      [] k = 3 -> \A e \in DOMAIN simple_replacements :
                     ~Contains(doc, simple_replacements[e][1])
      [] k = 4 -> \A i \in DOMAIN doc : label_pattern(doc, i) = 0
      [] k = 5 -> \A i \in DOMAIN doc : code_pattern(doc, i) = 0
      [] k = 6 -> \A i \in DOMAIN doc : ~longtable_pattern(doc, i).ok
      [] k = 7 -> \A i \in DOMAIN doc : adjust_pattern(doc, i) = 0
      [] k = 8 -> \A i \in DOMAIN doc : doc[i] \notin {"\\(", "\\)"}
      [] k = 9 -> \A i \in DOMAIN doc : pandoc_pattern(doc, i) = 0

BannerLines(doc) == {n \in DOMAIN SplitLines(doc) : IsBannerLine(SplitLines(doc)[n])}

\* doc without its last token when that is a newline
DropFinalNewline(doc) ==
    IF doc # <<>> /\ doc[Len(doc)] = "\n" THEN SubSeq(doc, 1, Len(doc) - 1) ELSE doc

BuiltFrom(kind, plain) ==
    \A n \in DOMAIN parts :
       \/ parts[n].kind = kind
       \/ parts[n].kind = "text" /\ parts[n].toks \in plain

LongtableControl == {"\\noalign", "\\endhead", "\\endlastfoot"}

\* C6 as stated: every longtable block becomes a table environment with
\* tabular{@{}C@{}}, a top rule, the rows of the body and a bottom rule,
\* and none of the longtable control tokens of the body is left, with or
\* without a header row.
C6_NoControlTokensLeft ==
    phase = "once" /\ BuiltFrom("longtable", {<<"x">>, <<"\n">>})
    => /\ \A i \in DOMAIN outDoc : outDoc[i] \notin LongtableControl
       /\ ~Contains(outDoc, LongtableOpen)
       /\ \A n \in DOMAIN parts :
             parts[n].kind = "longtable"
             => /\ Contains(outDoc, <<"\\begin", "{", "tabular", "}", "{", "@", "{", "}">>
                                    \o parts[n].arg[1] \o ColsClose \o <<"\n", " ", " ", "\\toprule", "\n">>)
                /\ Contains(outDoc, parts[n].arg[3] \o <<" ", " ", "\\bottomrule", "\n">>)

DefaultOptions ==
    <<"width", "=", "0.8", "\\textwidth", ",", "height", "=", "0.6", "\\textheight", ",",
      "keepaspectratio">>

\* what the figure rule is to make of a figure block
ExpectedFigure(p) ==
    LET ws       == p.arg[1]
        path     == p.arg[2]
        brackets == p.arg[3] # <<>>
        items    == SubSeq(p.arg, 4, Len(p.arg))
        sized    == \E n \in DOMAIN items : items[n][1] \in {"width", "height"}
        options  == IF ~brackets THEN DefaultOptions
                    ELSE IF sized THEN Join(items, <<",">>)
                    ELSE Join(items, <<",">>) \o <<",">> \o DefaultOptions
    IN  FigureBegin \o ws \o <<"\\centering">> \o ws \o <<"\\includegraphics", "[">>
        \o options \o <<"]", "{">> \o path \o <<"}">>
        \o <<"\n", "%", "\\floatnotes", "{", "}", "\n", "%", "\\label", "{", "fig:", "}">>

\* what the inline-code rule is to make of \passthrough{\lstinline!P!}
ExpectedVerb(p) == <<"\\verb", "|">> \o p.arg[1] \o <<"|">>

\* what the wrapper rule is to make of \pandocbounded{X}
ExpectedUnwrapped(p) == p.arg[1]

\* the output expected for the input document, part by part: loose text
\* stays as it is
Expected ==
    Concat([n \in DOMAIN parts |->
              CASE parts[n].kind = "fig" -> ExpectedFigure(parts[n])
                [] parts[n].kind = "code" -> ExpectedVerb(parts[n])
                [] parts[n].kind = "wrap" -> ExpectedUnwrapped(parts[n])
                [] OTHER -> parts[n].toks])

InLabelArg(doc, i) ==
    /\ \E j \in 1..(i - 2) :
          /\ doc[j] = "\\label" /\ doc[j + 1] = "{"
          /\ \A k \in (j + 2)..i : doc[k] # "}"
    /\ \E e \in (i + 1)..Len(doc) : doc[e] = "}"

Translit(tok) ==
    CASE tok = "uxfc" -> "ue"
      [] tok = "uxf6" -> "oe"
      [] tok = "uxe4" -> "ae"
      [] tok = "uxdf" -> "ss"
      [] OTHER -> tok

\* C8: the label rule replaces uxfc, uxf6, uxe4, uxdf by ue, oe, ae, ss in
\* the argument of every \label{...} and changes nothing anywhere else.
C8_OnlyLabelArguments ==
    phase = "once"
    => /\ Len(outDoc) = Len(inDoc)
       /\ \A i \in DOMAIN inDoc :
             outDoc[i] = IF InLabelArg(inDoc, i) THEN Translit(inDoc[i]) ELSE inDoc[i]

\* C8 witness: the label 'Kapitel uxfcber Motoren' has become 'Kapitel
\* ueber Motoren' while a uxfc outside every label argument has stayed
C8_Witness ==
    /\ phase = "once"
    /\ Contains(inDoc, <<"\\label", "{", "Kapitel", " ", "uxfc", "ber", " ", "Motoren", "}">>)
    /\ Contains(outDoc, <<"\\label", "{", "Kapitel", " ", "ue", "ber", " ", "Motoren", "}">>)
    /\ \E i \in DOMAIN inDoc :
          inDoc[i] = "uxfc" /\ ~InLabelArg(inDoc, i) /\ outDoc[i] = "uxfc"

\* C9: the inline-code rule rewrites every \passthrough{\lstinline!P!}
\* into \verb|P| with P the payload between the delimiters, token for
\* token, whatever the payload holds, and leaves the text around it.
C9_PayloadKept ==
    phase = "once" /\ BuiltFrom("code", {<<"x">>, <<" ">>, <<"\n">>, <<"}">>, <<"!", "}">>})
    => outDoc = Expected

\* C9 witness: two code items on one line, one of them with a payload of
\* special characters, have been rewritten
C9_Witness ==
    /\ phase = "once"
    /\ \E a, b \in DOMAIN parts :
          /\ a < b
          /\ parts[a].kind = "code" /\ parts[a].arg[1] = <<"\\(", "{", "$", "}">>
          /\ parts[b].kind = "code" /\ parts[b].arg[1] = <<"a", "|", "b">>
          /\ \A n \in a..b : "\n" \notin {parts[n].toks[k] : k \in DOMAIN parts[n].toks}
    /\ Contains(outDoc, <<"\\verb", "|", "\\(", "{", "$", "}", "|">>)
    /\ Contains(outDoc, <<"\\verb", "|", "a", "|", "b", "|">>)
    /\ ~Contains(outDoc, <<"\\passthrough">>)

\* C10 as stated: the wrapper rule replaces every \pandocbounded{X} by X,
\* also when X holds brace groups of its own, one nesting level per sweep.
C10_WrapperReplacedByArgument ==
    phase = "once" /\ BuiltFrom("wrap", {<<"x">>, <<"\n">>})
    => outDoc = Expected

TopRule(inner) == Least({i \in DOMAIN inner : inner[i] = "\\toprule"})

BottomRule(inner) ==
    Least({i \in DOMAIN inner : i > TopRule(inner) /\ inner[i] = "\\bottomrule"})

Located(inner) == TopRule(inner) # 0 /\ BottomRule(inner) # 0

RowContent(inner) == SubSeq(inner, TopRule(inner) + 1, BottomRule(inner) - 1)

Separators(row) == Cardinality({i \in DOMAIN row : row[i] = "&"})

RowEnds(row) == Cardinality({i \in DOMAIN row : row[i] = "\\\\"})

ExpectedColumns(row) ==
    IF RowEnds(row) = 0 THEN 1 ELSE (Separators(row) \div RowEnds(row)) + 1

\* a tabular of n 'l' columns around the given body
PlainTabular(n, body) ==
    <<"\\begin", "{", "tabular", "}", "{", "@", "{", "}">>
    \o [k \in 1..n |-> "l"]
    \o <<"@", "{", "}", "}", "\n", "\\toprule", "\n">> \o body
    \o <<"\n", "\\bottomrule", "\n", "\\end", "{", "tabular", "}">>

ExpectedReflow(p) ==
    IF Located(p.arg[1])
    THEN PlainTabular(ExpectedColumns(RowContent(p.arg[1])), Strip(RowContent(p.arg[1])))
    ELSE PlainTabular(1, <<"Inhalt konnte nicht extrahiert werden.">>)

ExpectedReflowDoc ==
    Concat([n \in DOMAIN parts |->
              IF parts[n].kind = "tabular" THEN ExpectedReflow(parts[n]) ELSE parts[n].toks])

EntriesAt(doc, i) ==
    {e \in DOMAIN simple_replacements : OccursAt(doc, i, simple_replacements[e][1])}

\* every occurrence of an entry's text that is present in doc replaced
\* once, from left to right, nothing that a replacement makes looked at
RECURSIVE EachOccurrenceOnce(_, _)
EachOccurrenceOnce(doc, i) ==
    LET j == Least({k \in i..Len(doc) : EntriesAt(doc, k) # {}})
        e == CHOOSE x \in EntriesAt(doc, j) : TRUE
    IN  IF j = 0 THEN DropTo(doc, i)
        ELSE SubSeq(doc, i, j - 1) \o simple_replacements[e][2]
             \o EachOccurrenceOnce(doc, j + Len(simple_replacements[e][1]))

\* C14 as stated: the table does not cascade, the result is the document
\* with each occurrence present in the input replaced exactly once.
C14_NoCascade ==
    phase = "once" => outDoc = EachOccurrenceOnce(inDoc, 1)

-----------------------------------------------------------------------------
(* Properties of the run: what is reported                                 *)

\* the files written with the result of all nine rules
FullyTransformed == {f \in DOMAIN disk : writes[f] = 1 /\ raised[f] = {}}

SuccessLogged(f) ==
    \E e \in DOMAIN log : log[e].msg = "Erfolgreich verarbeitet" /\ log[e].args = <<f>>

\* C15 as stated: a run that has ended has logged a summary with the number
\* of files attempted and the number fully transformed, and a file in
\* which a rule raised is not reported as successfully transformed.
C15_SummaryCountsPartialFailures ==
    /\ pc = "done"
       => \E e \in DOMAIN log :
             /\ log[e].level = "INFO"
             /\ Len(log[e].args) = 2
             /\ log[e].args = <<Cardinality(DOMAIN disk), Cardinality(FullyTransformed)>>
    /\ \A f \in DOMAIN disk : raised[f] # {} => ~SuccessLogged(f)

\* C16 as stated: the log entry of a raising rule names the rule and the
\* file that was being processed.
C16_RuleFailureNamesRuleAndFile ==
    \A e \in DOMAIN log :
       log[e].msg = "Fehler bei Transformation"
       => /\ \E k \in DOMAIN transform_names, i \in DOMAIN log[e].args :
                log[e].args[i] = transform_names[k]
          /\ \E f \in DOMAIN disk, i \in DOMAIN log[e].args : log[e].args[i] = f

DirectoryErrorLogged ==
    \E e \in DOMAIN log : log[e].msg = "Fehler beim Zugriff auf Verzeichnis"

\* C17 as stated: when the directory cannot be entered or listed the error
\* is reported, no file is read or written, and the run ends without a
\* failure exit.
C17_DirectoryErrorEndsCleanly ==
    DirectoryErrorLogged
    => /\ disk = disk0
       /\ \A f \in DOMAIN disk : writes[f] = 0
       /\ exitCode = 0

NoFilesLogged ==
    \E e \in DOMAIN log :
       log[e].level = "WARNING" /\ log[e].msg = "Keine .tex-Dateien gefunden!"

\* C18: when the directory holds no .tex file the run reports that with a
\* warning and ends: no file is written, no error is logged, and the exit
\* is not a failure exit.
C18_NoFilesIsNoError ==
    /\ NoFilesLogged
       => /\ pc = "done" /\ exitCode = 0
          /\ DOMAIN disk = {} /\ disk = disk0
          /\ \A e \in DOMAIN log : log[e].level # "ERROR"
    /\ DOMAIN disk = {} /\ pc \in {"done", "exit"} /\ ~DirectoryErrorLogged
       => NoFilesLogged /\ exitCode = 0

\* C18 witness: the run over a directory without .tex files has ended
C18_Witness ==
    /\ pc = "done" /\ exitCode = 0
    /\ DOMAIN disk = {}
    /\ NoFilesLogged
    /\ Len(log) = 3

\* the position in the log where file f was taken up, 0 if it was not
TakenUp(f) ==
    Least({e \in DOMAIN log : log[e].msg = "Verarbeite" /\ log[e].args = <<f>>})

-----------------------------------------------------------------------------
(* latexcode_entfernen2: suche_und_ersetze and entferne_befehl on one file *)

LATEX_BEFEHL == <<"\\passthrough">>

\* SUCHMUSTER tried at position i: {[}@ key:key:rest {]} with neither of the
\* two keys holding a colon and rest holding no closing bracket; the
\* position of the last brace of the match, 0 if there is no match
SUCHMUSTER(s, i) ==
    LET c1 == FirstTok(s, i + 4, ":")
        c2 == IF c1 = 0 THEN 0 ELSE FirstTok(s, c1 + 1, ":")
        r  == IF c2 = 0 THEN 0 ELSE FirstTok(s, c2 + 1, "]")
    IN  IF /\ OccursAt(s, i, <<"{", "[", "}", "@">>)
           /\ c1 > i + 4 /\ c2 > c1 + 1 /\ r > c2 + 2
           /\ s[r - 1] = "{" /\ OccursAt(s, r + 1, <<"}">>)
        THEN r + 1 ELSE 0

\* re.sub(SUCHMUSTER, ERSATZMUSTER, inhalt): \textcite{\1}
RECURSIVE ERSATZMUSTER(_, _)
ERSATZMUSTER(s, i) ==
    LET j == Least({k \in i..Len(s) : SUCHMUSTER(s, k) # 0})
        e == SUCHMUSTER(s, j)
    IN  IF j = 0 THEN DropTo(s, i)
        ELSE SubSeq(s, i, j - 1)
             \o <<"\\textcite", "{">> \o SubSeq(s, j + 4, e - 3) \o <<"}">>
             \o ERSATZMUSTER(s, e + 1)

backup_pfad == tex_pfad \o <<".bak">>

Zitat == <<"{", "[", "}", "@", "a", ":", "b", ":", "c", "{", "]", "}">>

\* the texts the .tex file may hold before the call
LcDocs ==
    {<<>>, <<"x">>, Zitat, <<"x", " ">> \o Zitat \o <<"\n">>, Zitat \o <<" ">> \o Zitat,
     <<"{", "[", "}", "@", "a", ":", "b", "{", "]", "}">>,
     LATEX_BEFEHL \o <<"{", "x", "}">>, Zitat \o LATEX_BEFEHL \o <<"{", "x", "}", "\n">>}

\* one of the two functions is called for a .tex file; a backup file of an
\* earlier call may lie beside it
LcInit ==
    /\ funktion \in {"suche_und_ersetze", "entferne_befehl"}
    /\ tex_pfad = <<"./tex/a.tex">>
    /\ \E doc \in LcDocs, stale \in BOOLEAN :
          dateien = IF stale
                    THEN [q \in {tex_pfad, tex_pfad \o <<".bak">>} |->
                             IF q = tex_pfad THEN doc ELSE <<"old">>]
                    ELSE [q \in {tex_pfad} |-> doc]
    /\ dateien0 = dateien
    /\ inhalt = <<>>
    /\ lc_pc = "start"
    /\ ausgabe = <<>>
    /\ FileIdle /\ pc = "idle"
    /\ RuleIdle
    /\ MenuIdle
    /\ PdfIdle
    /\ ImgIdle
    /\ YtIdle

Fehler == <<"Fehler beim Bearbeiten der Datei", tex_pfad>>

\* the first with block: the file is read; suche_und_ersetze replaces in
\* inhalt, entferne_befehl prints whether the command occurs
LcRead ==
    /\ lc_pc = "start"
    /\ inhalt' = IF funktion = "suche_und_ersetze"
                 THEN ERSATZMUSTER(dateien[tex_pfad], 1)
                 ELSE dateien[tex_pfad]
    /\ ausgabe' = IF funktion = "suche_und_ersetze" THEN ausgabe
                  ELSE Append(ausgabe,
                         <<IF Contains(dateien[tex_pfad], LATEX_BEFEHL)
                           THEN "gefunden" ELSE "nicht gefunden", tex_pfad>>)
    /\ lc_pc' = "backup"
    /\ UNCHANGED <<funktion, tex_pfad, dateien, dateien0>>
    /\ UNCHANGED <<fileVars, ruleVars, menuVars, pdfVars, imgVars, ytVars>>

\* open or read raises IOError
LcReadFails ==
    /\ lc_pc = "start"
    /\ ausgabe' = Append(ausgabe, Fehler)
    /\ lc_pc' = "done"
    /\ UNCHANGED <<funktion, tex_pfad, dateien, dateien0, inhalt>>
    /\ UNCHANGED <<fileVars, ruleVars, menuVars, pdfVars, imgVars, ytVars>>

\* the second with block: inhalt is written to tex_pfad + ".bak"
LcBackup ==
    /\ lc_pc = "backup"
    /\ dateien' = [q \in DOMAIN dateien \cup {backup_pfad} |->
                      IF q = backup_pfad THEN inhalt ELSE dateien[q]]
    /\ lc_pc' = "write"
    /\ UNCHANGED <<funktion, tex_pfad, dateien0, inhalt, ausgabe>>
    /\ UNCHANGED <<fileVars, ruleVars, menuVars, pdfVars, imgVars, ytVars>>

\* writing the backup raises IOError, before the file is opened or after
\* (the backup file is left empty)
LcBackupFails ==
    /\ lc_pc = "backup"
    /\ \E opened \in BOOLEAN :
          dateien' = IF opened
                     THEN [q \in DOMAIN dateien \cup {backup_pfad} |->
                              IF q = backup_pfad THEN <<>> ELSE dateien[q]]
                     ELSE dateien
    /\ ausgabe' = Append(ausgabe, Fehler)
    /\ lc_pc' = "done"
    /\ UNCHANGED <<funktion, tex_pfad, dateien0, inhalt>>
    /\ UNCHANGED <<fileVars, ruleVars, menuVars, pdfVars, imgVars, ytVars>>

\* the third with block: the .tex file is written
LcWrite ==
    /\ lc_pc = "write"
    /\ dateien' = [dateien EXCEPT ![tex_pfad] =
                      IF funktion = "suche_und_ersetze" THEN inhalt
                      ELSE Replace(inhalt, LATEX_BEFEHL, <<>>)]
    /\ lc_pc' = "done"
    /\ UNCHANGED <<funktion, tex_pfad, dateien0, inhalt, ausgabe>>
    /\ UNCHANGED <<fileVars, ruleVars, menuVars, pdfVars, imgVars, ytVars>>

\* writing the .tex file raises IOError, before the file is opened or
\* after (the file is left empty)
LcWriteFails ==
    /\ lc_pc = "write"
    /\ \E opened \in BOOLEAN :
          dateien' = IF opened THEN [dateien EXCEPT ![tex_pfad] = <<>>] ELSE dateien
    /\ ausgabe' = Append(ausgabe, Fehler)
    /\ lc_pc' = "done"
    /\ UNCHANGED <<funktion, tex_pfad, dateien0, inhalt>>
    /\ UNCHANGED <<fileVars, ruleVars, menuVars, pdfVars, imgVars, ytVars>>

LcNext == LcRead \/ LcReadFails \/ LcBackup \/ LcBackupFails \/ LcWrite \/ LcWriteFails

SpecBackup == LcInit /\ [][LcNext]_vars

\* C20 as stated: whenever the .tex file no longer holds the text it had
\* before the call, the backup file exists and holds that text, in
\* suche_und_ersetze and in entferne_befehl.
C20_BackupHoldsOriginal ==
    lc_pc # "idle" /\ dateien[tex_pfad] # dateien0[tex_pfad]
    => /\ backup_pfad \in DOMAIN dateien
       /\ dateien[backup_pfad] = dateien0[tex_pfad]

-----------------------------------------------------------------------------
(* scriptauswahl: the menu and the commands its entries run                *)

MaxEingaben == 2

ConfigKeys ==
    {"LATEX_KONVERTIEREN", "LATEX_ENTFERNEN", "LATEX_SUCHEN_ERSETZEN", "SYNC_TEX_FILES",
     "MAKE", "MAKE_XELATEX", "MAKE_LUALATEX", "MAKE_CLEAN", "MAKE_CLEAN_PDF",
     "HTML_PANDOC", "HTML_NAVIGATION", "HTML_ENTFERNEN"}

\* a configuration file that defines every command, each as a list of strings
ConfigFile(path) == [k \in ConfigKeys |-> [list |-> TRUE, value |-> <<"sh", path, k>>]]

\* the same with one entry that is not a list of strings
ConfigFileBroken(path) ==
    [k \in ConfigKeys |-> IF k = "MAKE" THEN [list |-> FALSE, value |-> <<"make">>]
                          ELSE ConfigFile(path)[k]]

\* load_config of a file that exists: the entries that are lists of strings
load_config(config_path) ==
    LET config == yaml[config_path]
        keys   == {k \in DOMAIN config : config[k].list}
    IN  [k \in keys |-> config[k].value]

\* the script is started, with or without --config
SaInit ==
    /\ args_config \in {"", "alt.yaml"}
    /\ \E std \in {"full", "broken", "none"}, alt \in BOOLEAN :
          yaml = [q \in (IF std = "none" THEN {} ELSE {"config.yaml"})
                        \cup (IF alt THEN {"alt.yaml"} ELSE {}) |->
                     IF q = "config.yaml" /\ std = "broken" THEN ConfigFileBroken(q)
                     ELSE ConfigFile(q)]
    /\ CONFIG = <<>> /\ LATEX_COMMANDS = <<>> /\ MAKE_COMMANDS = <<>> /\ HTML_COMMANDS = <<>>
    /\ sa_pc = "import"
    /\ eingaben = 0
    /\ aufrufe = <<>>
    /\ sa_log = <<>>
    /\ FileIdle
    /\ RuleIdle
    /\ ToolIdle
    /\ PdfIdle
    /\ ImgIdle
    /\ YtIdle

\* the module body: CONFIG is loaded from config.yaml and the command tables
\* are built from it
SaImport ==
    /\ sa_pc = "import"
    /\ "config.yaml" \in DOMAIN yaml
    /\ ConfigKeys \subseteq DOMAIN load_config("config.yaml")
    /\ CONFIG' = load_config("config.yaml")
    /\ LATEX_COMMANDS' = [KONVERTIEREN    |-> CONFIG'["LATEX_KONVERTIEREN"],
                          ENTFERNEN       |-> CONFIG'["LATEX_ENTFERNEN"],
                          SUCHEN_ERSETZEN |-> CONFIG'["LATEX_SUCHEN_ERSETZEN"],
                          SYNC_TEX_FILES  |-> CONFIG'["SYNC_TEX_FILES"]]
    /\ MAKE_COMMANDS' = [DEFAULT   |-> CONFIG'["MAKE"],
                         XELATEX   |-> CONFIG'["MAKE_XELATEX"],
                         LUALATEX  |-> CONFIG'["MAKE_LUALATEX"],
                         CLEAN     |-> CONFIG'["MAKE_CLEAN"],
                         CLEAN_PDF |-> CONFIG'["MAKE_CLEAN_PDF"]]
    /\ HTML_COMMANDS' = [PANDOC     |-> CONFIG'["HTML_PANDOC"],
                         NAVIGATION |-> CONFIG'["HTML_NAVIGATION"],
                         ENTFERNEN  |-> CONFIG'["HTML_ENTFERNEN"]]
    /\ sa_pc' = "main"
    /\ UNCHANGED <<args_config, yaml, eingaben, aufrufe, sa_log>>
    /\ UNCHANGED <<fileVars, ruleVars, toolVars, pdfVars, imgVars, ytVars>>

\* the module body raises: config.yaml is missing (FileNotFoundError) or
\* lacks a command (KeyError)
SaImportFails ==
    /\ sa_pc = "import"
    /\ \/ "config.yaml" \notin DOMAIN yaml
       \/ /\ "config.yaml" \in DOMAIN yaml
          /\ ~(ConfigKeys \subseteq DOMAIN load_config("config.yaml"))
    /\ CONFIG' = IF "config.yaml" \in DOMAIN yaml THEN load_config("config.yaml") ELSE CONFIG
    /\ sa_pc' = "raised"
    /\ UNCHANGED <<args_config, yaml, LATEX_COMMANDS, MAKE_COMMANDS, HTML_COMMANDS,
                   eingaben, aufrufe, sa_log>>
    /\ UNCHANGED <<fileVars, ruleVars, toolVars, pdfVars, imgVars, ytVars>>

\* args.config of main: the option, "config.yaml" by default
config_path == IF args_config = "" THEN "config.yaml" ELSE args_config

\* main up to the loop: CONFIG is loaded again, from args.config
SaMain ==
    /\ sa_pc = "main"
    /\ config_path \in DOMAIN yaml
    /\ CONFIG' = load_config(config_path)
    /\ sa_pc' = "menu"
    /\ UNCHANGED <<args_config, yaml, LATEX_COMMANDS, MAKE_COMMANDS, HTML_COMMANDS,
                   eingaben, aufrufe, sa_log>>
    /\ UNCHANGED <<fileVars, ruleVars, toolVars, pdfVars, imgVars, ytVars>>

\* the file named by --config does not exist: load_config raises
SaMainFails ==
    /\ sa_pc = "main"
    /\ config_path \notin DOMAIN yaml
    /\ sa_pc' = "raised"
    /\ UNCHANGED <<args_config, yaml, CONFIG, LATEX_COMMANDS, MAKE_COMMANDS, HTML_COMMANDS,
                   eingaben, aufrufe, sa_log>>
    /\ UNCHANGED <<fileVars, ruleVars, toolVars, pdfVars, imgVars, ytVars>>

\* the menu: number -> name and command; a command is a list of strings or
\* one of the two functions
BEFEHLE ==
    [n \in 1..14 |->
       CASE n = 1  -> [name |-> "LaTeX konvertieren", callable |-> "",
                       command |-> LATEX_COMMANDS.KONVERTIEREN]
         [] n = 2  -> [name |-> "LaTeX Code entfernen (Alle Dateien)", callable |-> "",
                       command |-> LATEX_COMMANDS.ENTFERNEN]
         [] n = 3  -> [name |-> "LaTeX Code Suchen und Ersetzen", callable |-> "",
                       command |-> LATEX_COMMANDS.SUCHEN_ERSETZEN]
         [] n = 4  -> [name |-> "Synchronisiere .tex-Dateien mit Auswahl einer Datei oder allen",
                       callable |-> "", command |-> LATEX_COMMANDS.SYNC_TEX_FILES]
         [] n = 5  -> [name |-> "Kombi Latex (Schritte 1-4+7)",
                       callable |-> "kombinierte_latex_verarbeitung", command |-> <<>>]
         [] n = 6  -> [name |-> "make (# pdflatex)", callable |-> "",
                       command |-> MAKE_COMMANDS.DEFAULT]
         [] n = 7  -> [name |-> "make xelatex", callable |-> "",
                       command |-> MAKE_COMMANDS.XELATEX]
         [] n = 8  -> [name |-> "make lualatex", callable |-> "",
                       command |-> MAKE_COMMANDS.LUALATEX]
         [] n = 9  -> [name |-> "make clean", callable |-> "",
                       command |-> MAKE_COMMANDS.CLEAN]
         [] n = 10 -> [name |-> "make clean-pdf", callable |-> "",
                       command |-> MAKE_COMMANDS.CLEAN_PDF]
         [] n = 11 -> [name |-> "Markdown in HTML Konvertierung mit Pandoc", callable |-> "",
                       command |-> HTML_COMMANDS.PANDOC]
         [] n = 12 -> [name |-> "Navigation über HTML Seiten erstellen", callable |-> "",
                       command |-> HTML_COMMANDS.NAVIGATION]
         [] n = 13 -> [name |-> "HTML Code entfernen", callable |-> "",
                       command |-> HTML_COMMANDS.ENTFERNEN]
         [] n = 14 -> [name |-> "Kombi HTML (Schritte 11-13)",
                       callable |-> "kombinierte_html_verarbeitung", command |-> <<>>]]

\* what subprocess.run may do with a command
Ergebnisse == {"ok", "CalledProcessError", "FileNotFoundError"}

SaRecord(level, msg, args) == [level |-> level, msg |-> msg, args |-> args]

\* sicherer_aufruf(befehl) with the given result of subprocess.run, on the
\* commands run and the log so far
sicherer_aufruf(lauf, befehl, ergebnis) ==
    [aufrufe |-> Append(lauf.aufrufe, befehl),
     log     |-> Append(lauf.log, SaRecord("INFO", "Ausführender Befehl", befehl))
                 \o CASE ergebnis = "ok" -> <<>>
                      [] ergebnis = "CalledProcessError" ->
                           <<SaRecord("ERROR", "Fehler beim Ausführen des Befehls", <<>>)>>
                      [] OTHER ->
                           <<SaRecord("ERROR", "Befehl nicht gefunden", <<>>)>>]

verarbeite_alle_tex_dateien(lauf, ergebnis) ==
    LET nach == sicherer_aufruf(lauf, <<"rsync", "-avh", "--progress", "tex/", ".">>, ergebnis)
    IN  [nach EXCEPT !.log = Append(@,
            IF ergebnis = "ok"
            THEN SaRecord("INFO", "Alle .tex-Dateien wurden synchronisiert.", <<>>)
            ELSE SaRecord("ERROR", "Fehler beim Synchronisieren der .tex-Dateien.", <<>>))]

schritte ==
    <<[befehl |-> LATEX_COMMANDS.KONVERTIEREN, beschreibung |-> "LaTeX konvertieren"],
      [befehl |-> LATEX_COMMANDS.ENTFERNEN, beschreibung |-> "LaTeX Code entfernen"],
      [befehl |-> LATEX_COMMANDS.SUCHEN_ERSETZEN,
       beschreibung |-> "LaTeX Code suchen und ersetzen"],
      [befehl |-> <<>>, beschreibung |-> "Synchronisiere .tex-Dateien"],
      [befehl |-> MAKE_COMMANDS.XELATEX, beschreibung |-> "make xelatex"]>>

\* the loop of kombinierte_latex_verarbeitung from step i on
RECURSIVE LatexSchritte(_, _, _)
LatexSchritte(lauf, i, ergebnisse) ==
    IF i > Len(schritte)
    THEN [lauf EXCEPT !.log = Append(@,
             SaRecord("INFO", "Kombinierte LaTeX Verarbeitung abgeschlossen.", <<>>))]
    ELSE LET angesagt == [lauf EXCEPT !.log = Append(@,
                             SaRecord("INFO", "Führe aus", <<schritte[i].beschreibung>>))]
         IN  IF i = 4
             THEN LatexSchritte(verarbeite_alle_tex_dateien(angesagt, ergebnisse[i]),
                                i + 1, ergebnisse)
             ELSE LET nach == sicherer_aufruf(angesagt, schritte[i].befehl, ergebnisse[i])
                  IN  IF ergebnisse[i] = "ok"
                      THEN LatexSchritte(nach, i + 1, ergebnisse)
                      ELSE [nach EXCEPT !.log = Append(@,
                               SaRecord("ERROR", "Fehler bei", <<schritte[i].beschreibung>>))]

kombinierte_latex_verarbeitung(lauf, ergebnisse) ==
    LatexSchritte([lauf EXCEPT !.log = Append(@,
                      SaRecord("INFO", "Starte kombinierte LaTeX Verarbeitung...", <<>>))],
                  1, ergebnisse)

kombinierte_html_verarbeitung(lauf, ergebnisse) ==
    sicherer_aufruf(
        sicherer_aufruf(
            sicherer_aufruf(lauf, HTML_COMMANDS.PANDOC, ergebnisse[1]),
            HTML_COMMANDS.NAVIGATION, ergebnisse[2]),
        HTML_COMMANDS.ENTFERNEN, ergebnisse[3])

Trennlinie == SaRecord("INFO", "==================================================", <<>>)

TrennlinieOben == SaRecord("INFO", "\n==================================================", <<>>)

\* one pass of the loop of main with a menu number: the entry is run and
\* the script waits for Enter
SaBefehl ==
    /\ sa_pc = "menu"
    /\ eingaben < MaxEingaben
    /\ \E auswahl \in DOMAIN BEFEHLE, ergebnisse \in [1..5 -> Ergebnisse] :
          LET vorher == [aufrufe |-> aufrufe, log |-> Append(sa_log, TrennlinieOben)]
              eintrag == BEFEHLE[auswahl]
              nach == CASE eintrag.callable = "kombinierte_latex_verarbeitung" ->
                             kombinierte_latex_verarbeitung(vorher, ergebnisse)
                        [] eintrag.callable = "kombinierte_html_verarbeitung" ->
                             kombinierte_html_verarbeitung(vorher, ergebnisse)
                        [] OTHER -> sicherer_aufruf(vorher, eintrag.command, ergebnisse[1])
          IN  /\ aufrufe' = nach.aufrufe
              /\ sa_log' = Append(nach.log, Trennlinie)
    /\ eingaben' = eingaben + 1
    /\ UNCHANGED <<args_config, yaml, CONFIG, LATEX_COMMANDS, MAKE_COMMANDS, HTML_COMMANDS, sa_pc>>
    /\ UNCHANGED <<fileVars, ruleVars, toolVars, pdfVars, imgVars, ytVars>>

\* an input that is neither q nor a menu number
SaUngueltig ==
    /\ sa_pc = "menu"
    /\ eingaben < MaxEingaben
    /\ sa_log' = Append(sa_log,
          SaRecord("WARNING", "Ungültige Auswahl. Bitte erneut versuchen.", <<>>))
    /\ eingaben' = eingaben + 1
    /\ UNCHANGED <<args_config, yaml, CONFIG, LATEX_COMMANDS, MAKE_COMMANDS, HTML_COMMANDS,
                   sa_pc, aufrufe>>
    /\ UNCHANGED <<fileVars, ruleVars, toolVars, pdfVars, imgVars, ytVars>>

\* the input q ends the loop
SaBeenden ==
    /\ sa_pc = "menu"
    /\ sa_pc' = "done"
    /\ UNCHANGED <<args_config, yaml, CONFIG, LATEX_COMMANDS, MAKE_COMMANDS, HTML_COMMANDS,
                   eingaben, aufrufe, sa_log>>
    /\ UNCHANGED <<fileVars, ruleVars, toolVars, pdfVars, imgVars, ytVars>>

SaNext ==
    \/ SaImport \/ SaImportFails \/ SaMain \/ SaMainFails
    \/ SaBefehl \/ SaUngueltig \/ SaBeenden

SpecMenu == SaInit /\ [][SaNext]_vars

\* the commands the configuration file named by --config defines
Konfiguriert == {load_config(config_path)[k] : k \in DOMAIN load_config(config_path)}

\* C21 as stated: every configured command a menu entry runs is one that the
\* file named by --config defines (config.yaml when the option is absent).
C21_CommandsFromNamedConfig ==
    sa_pc \in {"menu", "done"}
    => \A i \in DOMAIN aufrufe :
          aufrufe[i][1] # "rsync" => aufrufe[i] \in Konfiguriert

-----------------------------------------------------------------------------
(* pdf_extractor: extrahiere_kapitel, called directly or by the script     *)

MaxSeiten == 3

PeRecord(level, msg, args) == [level |-> level, msg |-> msg, args |-> args]

\* validiere_eingaben: "" if it returns True, else the message of its ValueError
validiere_eingaben ==
    CASE ~eingangs_pdf.da        -> "existiert nicht"
      [] eingangs_pdf.gross      -> "Die PDF-Datei ist größer als 100MB."
      [] startseite > endseite   -> "Die Startseite muss kleiner oder gleich der Endseite sein."
      [] startseite < 1          -> "Die Startseite muss mindestens 1 sein."
      [] OTHER                   -> ""

\* a PDF of n pages, page i carrying its number
Seiten(n) == [i \in 1..n |-> [nr |-> i, komprimiert |-> FALSE]]

\* the script has read the inputs (pe_pc = "main"), or another module calls
\* extrahiere_kapitel itself (pe_pc = "start")
PeInit ==
    /\ \E da \in BOOLEAN, gross \in BOOLEAN, n \in 0..MaxSeiten :
          eingangs_pdf = [da |-> da, gross |-> da /\ gross, seiten |-> IF da THEN Seiten(n) ELSE <<>>]
    /\ startseite \in 0..(MaxSeiten + 1)
    /\ endseite \in 0..(MaxSeiten + 1)
    /\ komprimieren \in BOOLEAN
    /\ writer = <<>>
    /\ seitennummer = 0
    /\ ausgangs_pdf = [da |-> FALSE, seiten |-> <<>>]
    /\ pe_pc \in {"main", "start"}
    /\ pe_fehler = ""
    /\ pe_log = <<>>
    /\ FileIdle
    /\ RuleIdle
    /\ ToolIdle
    /\ MenuIdle
    /\ ImgIdle
    /\ YtIdle

\* the script: validiere_eingaben returns and extrahiere_kapitel is called
PeMain ==
    /\ pe_pc = "main"
    /\ eingangs_pdf.da
    /\ validiere_eingaben = ""
    /\ pe_pc' = "start"
    /\ UNCHANGED <<eingangs_pdf, startseite, endseite, komprimieren, writer, seitennummer,
                   ausgangs_pdf, pe_fehler, pe_log>>
    /\ UNCHANGED <<fileVars, ruleVars, toolVars, menuVars, imgVars, ytVars>>

\* the script: validiere_eingaben raises, the script logs the error and ends
PeMainInvalid ==
    /\ pe_pc = "main"
    /\ eingangs_pdf.da
    /\ validiere_eingaben # ""
    /\ pe_fehler' = "ValueError"
    /\ pe_log' = Append(pe_log, PeRecord("ERROR", "Fehler", <<validiere_eingaben>>))
    /\ pe_pc' = "ended"
    /\ UNCHANGED <<eingangs_pdf, startseite, endseite, komprimieren, writer, seitennummer,
                   ausgangs_pdf>>
    /\ UNCHANGED <<fileVars, ruleVars, toolVars, menuVars, imgVars, ytVars>>

\* the script: get_pdf_info does not find the input, the script logs the
\* unexpected error and ends
PeMainNotFound ==
    /\ pe_pc = "main"
    /\ ~eingangs_pdf.da
    /\ pe_fehler' = "FileNotFoundError"
    /\ pe_log' = Append(pe_log, PeRecord("ERROR", "Unerwarteter Fehler", <<>>))
    /\ pe_pc' = "ended"
    /\ UNCHANGED <<eingangs_pdf, startseite, endseite, komprimieren, writer, seitennummer,
                   ausgangs_pdf>>
    /\ UNCHANGED <<fileVars, ruleVars, toolVars, menuVars, imgVars, ytVars>>

startseite_index == startseite - 1

endseite_index == endseite - 1

gesamt_seiten == Len(eingangs_pdf.seiten)

total_seiten == endseite - startseite + 1

\* extrahiere_kapitel up to the loop: the reader is opened and the page
\* numbers pass the check
PeOpen ==
    /\ pe_pc = "start"
    /\ eingangs_pdf.da
    /\ ~(startseite_index < 0 \/ endseite_index >= gesamt_seiten)
    /\ pe_log' = Append(pe_log, PeRecord("INFO", "Beginne Extraktion von Seiten", <<total_seiten>>))
    /\ seitennummer' = startseite_index
    /\ pe_pc' = "loop"
    /\ UNCHANGED <<eingangs_pdf, startseite, endseite, komprimieren, writer, ausgangs_pdf,
                   pe_fehler>>
    /\ UNCHANGED <<fileVars, ruleVars, toolVars, menuVars, imgVars, ytVars>>

\* the page numbers fail the check: ValueError, logged and raised again
PeInvalid ==
    /\ pe_pc = "start"
    /\ eingangs_pdf.da
    /\ startseite_index < 0 \/ endseite_index >= gesamt_seiten
    /\ pe_fehler' = "ValueError"
    /\ pe_log' = Append(pe_log, PeRecord("ERROR", "Ungültige Seitenzahlen", <<gesamt_seiten>>))
    /\ pe_pc' = "raised"
    /\ UNCHANGED <<eingangs_pdf, startseite, endseite, komprimieren, writer, seitennummer,
                   ausgangs_pdf>>
    /\ UNCHANGED <<fileVars, ruleVars, toolVars, menuVars, imgVars, ytVars>>

\* PdfReader does not find the input: FileNotFoundError, logged and raised again
PeNotFound ==
    /\ pe_pc = "start"
    /\ ~eingangs_pdf.da
    /\ pe_fehler' = "FileNotFoundError"
    /\ pe_log' = Append(pe_log, PeRecord("ERROR", "Die Eingabe-PDF wurde nicht gefunden.", <<>>))
    /\ pe_pc' = "raised"
    /\ UNCHANGED <<eingangs_pdf, startseite, endseite, komprimieren, writer, seitennummer,
                   ausgangs_pdf>>
    /\ UNCHANGED <<fileVars, ruleVars, toolVars, menuVars, imgVars, ytVars>>

\* one pass of the loop over range(startseite_index, endseite_index + 1)
PePage ==
    /\ pe_pc = "loop"
    /\ seitennummer < endseite_index + 1
    /\ LET page == eingangs_pdf.seiten[seitennummer + 1]
       IN  writer' = Append(writer, IF komprimieren THEN [page EXCEPT !.komprimiert = TRUE]
                                    ELSE page)
    /\ seitennummer' = seitennummer + 1
    /\ UNCHANGED <<eingangs_pdf, startseite, endseite, komprimieren, ausgangs_pdf, pe_pc,
                   pe_fehler, pe_log>>
    /\ UNCHANGED <<fileVars, ruleVars, toolVars, menuVars, imgVars, ytVars>>

\* after the loop: the writer is written to the output file and the
\* function reports what it extracted
PeWrite ==
    /\ pe_pc = "loop"
    /\ ~(seitennummer < endseite_index + 1)
    /\ ausgangs_pdf' = [da |-> TRUE, seiten |-> writer]
    /\ pe_log' = pe_log \o
          <<PeRecord("INFO", "Kapitel erfolgreich extrahiert und gespeichert unter", <<>>),
            PeRecord("INFO", "Extrahierte Seiten", <<startseite, endseite>>),
            PeRecord("INFO", "Anzahl Seiten", <<total_seiten>>)>>
          \o IF komprimieren THEN <<PeRecord("INFO", "Dateigröße", <<>>)>> ELSE <<>>
    /\ pe_pc' = "returned"
    /\ UNCHANGED <<eingangs_pdf, startseite, endseite, komprimieren, writer, seitennummer,
                   pe_fehler>>
    /\ UNCHANGED <<fileVars, ruleVars, toolVars, menuVars, imgVars, ytVars>>

\* the output file cannot be opened for writing: PermissionError, logged
\* and raised again
PeWriteFails ==
    /\ pe_pc = "loop"
    /\ ~(seitennummer < endseite_index + 1)
    /\ pe_fehler' = "PermissionError"
    /\ pe_log' = Append(pe_log, PeRecord("ERROR", "Keine Berechtigung zum Schreiben der Datei", <<>>))
    /\ pe_pc' = "raised"
    /\ UNCHANGED <<eingangs_pdf, startseite, endseite, komprimieren, writer, seitennummer,
                   ausgangs_pdf>>
    /\ UNCHANGED <<fileVars, ruleVars, toolVars, menuVars, imgVars, ytVars>>

PeNext ==
    \/ PeMain \/ PeMainInvalid \/ PeMainNotFound
    \/ PeOpen \/ PeInvalid \/ PeNotFound \/ PePage \/ PeWrite \/ PeWriteFails

SpecExtract == PeInit /\ [][PeNext]_vars

\* the page numbers the output file holds, in order
AusgabeNummern == [i \in DOMAIN ausgangs_pdf.seiten |-> ausgangs_pdf.seiten[i].nr]

\* the requested page numbers are invalid, as the claim lists them
UngueltigeSeiten ==
    startseite < 1 \/ endseite > gesamt_seiten \/ startseite > endseite

\* C22 as stated: if the requested page numbers are invalid, extrahiere_kapitel
\* raises ValueError and writes no output file; otherwise the output holds
\* exactly the pages startseite..endseite of the input, in order.
C22_InvalidPagesRaise ==
    /\ pe_pc \in {"returned", "raised"} /\ eingangs_pdf.da /\ UngueltigeSeiten
       => pe_fehler = "ValueError" /\ ~ausgangs_pdf.da
    /\ pe_pc = "returned" /\ ~UngueltigeSeiten
       => /\ ausgangs_pdf.da
          /\ AusgabeNummern = [i \in 1..total_seiten |-> startseite + i - 1]

-----------------------------------------------------------------------------
(* image_resizer: process_single_image for the images of a pool            *)

\* the images find_images returns, by their stem
Images == {"a", "b"}

image_path(stem) == <<"images/input", stem, ".png">>

webp_path(stem) == <<"images/output/web", stem, ".webp">>

pdf_path(stem) == <<"images/output/presentation", stem, ".pdf">>

temp_pdf(stem) == <<"images/output/presentation", stem, "_temp.pdf">>

\* what a file of an earlier run holds
Alt == <<"alt">>

IrRecord(level, msg, args) == [level |-> level, msg |-> msg, args |-> args]

\* the file path written with content c
Written(files, path, c) ==
    [q \in DOMAIN files \cup {path} |-> IF q = path THEN c ELSE files[q]]

\* process_all_images has found the images; for each, the outputs of an
\* earlier run may exist
IrInit ==
    /\ force \in BOOLEAN
    /\ \E web \in SUBSET Images, pres \in SUBSET Images :
          bilder = [q \in {image_path(i) : i \in Images}
                          \cup {webp_path(i) : i \in web} \cup {pdf_path(i) : i \in pres} |->
                      IF q[1] = "images/input" THEN <<"image", q[2]>> ELSE Alt]
    /\ bilder0 = bilder
    /\ ir_pc = [i \in Images |-> "webp"]
    /\ ir_log = <<>>
    /\ FileIdle
    /\ RuleIdle
    /\ ToolIdle
    /\ MenuIdle
    /\ PdfIdle
    /\ YtIdle

\* convert_to_webp returns at once: the output exists and force is not set
IrWebpExists(i) ==
    /\ ir_pc[i] = "webp"
    /\ webp_path(i) \in DOMAIN bilder /\ ~force
    /\ ir_log' = Append(ir_log, IrRecord("DEBUG", "WebP-Datei existiert bereits", <<webp_path(i)>>))
    /\ ir_pc' = [ir_pc EXCEPT ![i] = "pdf"]
    /\ UNCHANGED <<force, bilder, bilder0>>
    /\ UNCHANGED <<fileVars, ruleVars, toolVars, menuVars, pdfVars, ytVars>>

\* convert_to_webp runs magick, which writes the output
IrWebp(i) ==
    /\ ir_pc[i] = "webp"
    /\ ~(webp_path(i) \in DOMAIN bilder /\ ~force)
    /\ bilder' = Written(bilder, webp_path(i), <<"webp", bilder[image_path(i)]>>)
    /\ ir_log' = Append(ir_log, IrRecord("INFO", "WebP-Konvertierung erfolgreich", <<webp_path(i)>>))
    /\ ir_pc' = [ir_pc EXCEPT ![i] = "pdf"]
    /\ UNCHANGED <<force, bilder0>>
    /\ UNCHANGED <<fileVars, ruleVars, toolVars, menuVars, pdfVars, ytVars>>

\* a conversion step raises CalledProcessError: the step logs it, raises
\* again, and process_single_image logs the image and returns False
IrFails(i) ==
    /\ \/ ir_pc[i] = "webp" /\ ~(webp_path(i) \in DOMAIN bilder /\ ~force)
       \/ ir_pc[i] \in {"pdf", "optimize"}
    /\ ir_log' = ir_log \o
          <<IrRecord("ERROR", CASE ir_pc[i] = "webp" -> "Fehler bei WebP-Konvertierung"
                                [] ir_pc[i] = "pdf" -> "Fehler bei PDF-Konvertierung"
                                [] OTHER -> "Fehler bei PDF-Optimierung", <<>>),
            IrRecord("ERROR", "Fehler bei Verarbeitung von", <<image_path(i)>>)>>
    /\ ir_pc' = [ir_pc EXCEPT ![i] = "False"]
    /\ UNCHANGED <<force, bilder, bilder0>>
    /\ UNCHANGED <<fileVars, ruleVars, toolVars, menuVars, pdfVars, ytVars>>

\* convert_to_pdf: magick writes the temporary PDF from the WebP file
IrPdf(i) ==
    /\ ir_pc[i] = "pdf"
    /\ webp_path(i) \in DOMAIN bilder
    /\ bilder' = Written(bilder, temp_pdf(i), <<"pdf", bilder[webp_path(i)]>>)
    /\ ir_log' = Append(ir_log, IrRecord("DEBUG", "PDF-Konvertierung erfolgreich", <<temp_pdf(i)>>))
    /\ ir_pc' = [ir_pc EXCEPT ![i] = "optimize"]
    /\ UNCHANGED <<force, bilder0>>
    /\ UNCHANGED <<fileVars, ruleVars, toolVars, menuVars, pdfVars, ytVars>>

\* optimize_pdf: gs writes the PDF from the temporary PDF
IrOptimize(i) ==
    /\ ir_pc[i] = "optimize"
    /\ bilder' = Written(bilder, pdf_path(i), <<"gs", bilder[temp_pdf(i)]>>)
    /\ ir_log' = Append(ir_log, IrRecord("DEBUG", "PDF-Optimierung erfolgreich", <<pdf_path(i)>>))
    /\ ir_pc' = [ir_pc EXCEPT ![i] = "unlink"]
    /\ UNCHANGED <<force, bilder0>>
    /\ UNCHANGED <<fileVars, ruleVars, toolVars, menuVars, pdfVars, ytVars>>

\* temp_pdf.unlink() and return (image_path, True)
IrUnlink(i) ==
    /\ ir_pc[i] = "unlink"
    /\ bilder' = [q \in DOMAIN bilder \ {temp_pdf(i)} |-> bilder[q]]
    /\ ir_pc' = [ir_pc EXCEPT ![i] = "True"]
    /\ UNCHANGED <<force, bilder0, ir_log>>
    /\ UNCHANGED <<fileVars, ruleVars, toolVars, menuVars, pdfVars, ytVars>>

\* process_all_images after the pool: the summary
IrSummary ==
    /\ \A i \in Images : ir_pc[i] \in {"True", "False"}
    /\ ir_log' = Append(ir_log, IrRecord("INFO", "Verarbeitung abgeschlossen",
                     <<Cardinality({i \in Images : ir_pc[i] = "True"}), Cardinality(Images)>>))
    /\ ir_pc' = [i \in Images |-> "summed"]
    /\ UNCHANGED <<force, bilder, bilder0>>
    /\ UNCHANGED <<fileVars, ruleVars, toolVars, menuVars, pdfVars, ytVars>>

IrNext ==
    \/ \E i \in Images :
          \/ IrWebpExists(i) \/ IrWebp(i) \/ IrFails(i)
          \/ IrPdf(i) \/ IrOptimize(i) \/ IrUnlink(i)
    \/ IrSummary

SpecResize == IrInit /\ [][IrNext]_vars

\* C23 as stated: without --force, an image whose WebP and PDF outputs both
\* exist before the run keeps both files as they were.
C23_ExistingOutputsUntouched ==
    ~force
    => \A i \in Images :
          webp_path(i) \in DOMAIN bilder0 /\ pdf_path(i) \in DOMAIN bilder0
          => /\ webp_path(i) \in DOMAIN bilder /\ bilder[webp_path(i)] = bilder0[webp_path(i)]
             /\ pdf_path(i) \in DOMAIN bilder /\ bilder[pdf_path(i)] = bilder0[pdf_path(i)]

-----------------------------------------------------------------------------
(* youtube_text_extraktor: extrahiere_text_aus_video                       *)

\* the URLs tried, each as its parts
Urls ==
    {<<"http://", "youtu", ".", "be", "/", "GRKYOWYs1gM">>,
     <<"https://", "www.", "youtube", ".", "com", "/", "watch?v=", "GRKYOWYs1gM", "&", "t=1">>,
     <<"youtube-nocookie", ".", "com", "/", "embed", "/", "GRKYOWYs1gM">>,
     <<"https://", "example", ".", "org", "/", "GRKYOWYs1gM">>}

\* re.match(youtube_regex, url)
youtube_regex(u) ==
    LET a == IF Len(u) >= 1 /\ u[1] \in {"http://", "https://"} THEN 2 ELSE 1
        b == IF Len(u) >= a /\ u[a] = "www." THEN a + 1 ELSE a
    IN  /\ Len(u) >= b + 3
        /\ u[b] \in {"youtube", "youtu", "youtube-nocookie"}
        /\ u[b + 1] = "."
        /\ u[b + 2] \in {"com", "be"}
        /\ u[b + 3] = "/"

\* hole_video_id: the part after watch?v= up to the next &, else the part
\* after youtu.be/, else the part after the last slash
hole_video_id(u) ==
    LET w == FirstTok(u, 1, "watch?v=")
        e == FirstTok(u, w + 1, "&")
        y == Find(u, 1, <<"youtu", ".", "be", "/">>)
        slashes == {i \in DOMAIN u : u[i] = "/"}
        l == IF slashes = {} THEN 0 ELSE CHOOSE i \in slashes : \A j \in slashes : j <= i
    IN  IF w # 0 THEN SubSeq(u, w + 1, IF e = 0 THEN Len(u) ELSE e - 1)
        ELSE IF y # 0 THEN DropTo(u, y + 4)
        ELSE DropTo(u, l + 1)

\* what a transcript lookup may do
Lookups == {"text", "leer", "NoTranscriptFound", "TranscriptsDisabled"}

Fehlertext == "Fehler bei der Textextraktion"

\* the function is called; audio.mp3 of an earlier run may exist
YtInit ==
    /\ url \in Urls
    /\ video_id = <<>>
    /\ untertitel \in [de : Lookups, auto : Lookups, attr : BOOLEAN]
    /\ audio_datei \in BOOLEAN
    /\ text = ""
    /\ yt_pc = "start"
    /\ yt_schritte = <<>>
    /\ rueckgabe = ""
    /\ FileIdle
    /\ RuleIdle
    /\ ToolIdle
    /\ MenuIdle
    /\ PdfIdle
    /\ ImgIdle

\* prüfe_url and hole_video_id pass
YtStart ==
    /\ yt_pc = "start"
    /\ youtube_regex(url)
    /\ video_id' = hole_video_id(url)
    /\ yt_schritte' = yt_schritte \o <<"Video-ID", "Suche nach vorhandenen Untertiteln...">>
    /\ yt_pc' = "untertitel"
    /\ UNCHANGED <<url, untertitel, audio_datei, text, rueckgabe>>
    /\ UNCHANGED <<fileVars, ruleVars, toolVars, menuVars, pdfVars, imgVars>>

\* prüfe_url raises ValueError, which the function turns into its result
YtBadUrl ==
    /\ yt_pc = "start"
    /\ ~youtube_regex(url)
    /\ rueckgabe' = Fehlertext
    /\ yt_pc' = "returned"
    /\ UNCHANGED <<url, video_id, untertitel, audio_datei, text, yt_schritte>>
    /\ UNCHANGED <<fileVars, ruleVars, toolVars, menuVars, pdfVars, imgVars>>

\* hole_untertitel: get_transcript for "de" returns
YtManual ==
    /\ yt_pc = "untertitel"
    /\ untertitel.de \in {"text", "leer"}
    /\ text' = IF untertitel.de = "text" THEN "Untertitel de" ELSE ""
    /\ yt_schritte' = Append(yt_schritte, "get_transcript de")
    /\ yt_pc' = "geholt"
    /\ UNCHANGED <<url, video_id, untertitel, audio_datei, rueckgabe>>
    /\ UNCHANGED <<fileVars, ruleVars, toolVars, menuVars, pdfVars, imgVars>>

\* hole_untertitel: get_transcript for "de" raises, which is printed
YtManualFails ==
    /\ yt_pc = "untertitel"
    /\ untertitel.de \notin {"text", "leer"}
    /\ yt_schritte' = yt_schritte \o
          <<"get_transcript de", "Keine manuellen deutschen Untertitel gefunden">>
    /\ yt_pc' = "auto"
    /\ UNCHANGED <<url, video_id, untertitel, audio_datei, text, rueckgabe>>
    /\ UNCHANGED <<fileVars, ruleVars, toolVars, menuVars, pdfVars, imgVars>>

\* hole_untertitel: get_transcript for "de-generated" returns
YtAuto ==
    /\ yt_pc = "auto"
    /\ untertitel.auto \in {"text", "leer"}
    /\ text' = IF untertitel.auto = "text" THEN "Untertitel de-generated" ELSE ""
    /\ yt_schritte' = Append(yt_schritte, "get_transcript de-generated")
    /\ yt_pc' = "geholt"
    /\ UNCHANGED <<url, video_id, untertitel, audio_datei, rueckgabe>>
    /\ UNCHANGED <<fileVars, ruleVars, toolVars, menuVars, pdfVars, imgVars>>

\* hole_untertitel: the second lookup raises TranscriptsDisabled and the
\* except clause names that class: None is returned
YtAutoDisabled ==
    /\ yt_pc = "auto"
    /\ untertitel.auto = "TranscriptsDisabled" /\ untertitel.attr
    /\ text' = ""
    /\ yt_schritte' = Append(yt_schritte, "get_transcript de-generated")
    /\ yt_pc' = "geholt"
    /\ UNCHANGED <<url, video_id, untertitel, audio_datei, rueckgabe>>
    /\ UNCHANGED <<fileVars, ruleVars, toolVars, menuVars, pdfVars, imgVars>>

\* hole_untertitel: the second lookup raises something the except clause
\* does not catch (or the name in the except clause does not resolve); the
\* exception leaves hole_untertitel and the function returns its error text
YtAutoRaises ==
    /\ yt_pc = "auto"
    /\ \/ untertitel.auto = "NoTranscriptFound"
       \/ untertitel.auto = "TranscriptsDisabled" /\ ~untertitel.attr
    /\ yt_schritte' = Append(yt_schritte, "get_transcript de-generated")
    /\ rueckgabe' = Fehlertext
    /\ yt_pc' = "returned"
    /\ UNCHANGED <<url, video_id, untertitel, audio_datei, text>>
    /\ UNCHANGED <<fileVars, ruleVars, toolVars, menuVars, pdfVars, imgVars>>

\* if text: the subtitles are returned
YtReturnSubtitles ==
    /\ yt_pc = "geholt"
    /\ text # ""
    /\ yt_schritte' = Append(yt_schritte, "Untertitel erfolgreich geladen!")
    /\ rueckgabe' = text
    /\ yt_pc' = "returned"
    /\ UNCHANGED <<url, video_id, untertitel, audio_datei, text>>
    /\ UNCHANGED <<fileVars, ruleVars, toolVars, menuVars, pdfVars, imgVars>>

\* extrahiere_audio downloads audio.mp3, replacing an existing file
YtAudio ==
    /\ yt_pc = "geholt"
    /\ text = ""
    /\ yt_schritte' = yt_schritte \o
          <<"Keine Untertitel gefunden. Starte Audio-Download...", "extrahiere_audio">>
    /\ audio_datei' = TRUE
    /\ yt_pc' = "transkription"
    /\ UNCHANGED <<url, video_id, untertitel, text, rueckgabe>>
    /\ UNCHANGED <<fileVars, ruleVars, toolVars, menuVars, pdfVars, imgVars>>

\* extrahiere_audio fails and returns None, before or after it removed an
\* existing audio.mp3, or leaving a partial download behind
YtAudioFails ==
    /\ yt_pc = "geholt"
    /\ text = ""
    /\ yt_schritte' = yt_schritte \o
          <<"Keine Untertitel gefunden. Starte Audio-Download...", "extrahiere_audio",
            "Fehler beim Herunterladen des Audios">>
    /\ audio_datei' \in BOOLEAN
    /\ rueckgabe' = Fehlertext
    /\ yt_pc' = "returned"
    /\ UNCHANGED <<url, video_id, untertitel, text>>
    /\ UNCHANGED <<fileVars, ruleVars, toolVars, menuVars, pdfVars, imgVars>>

\* transkribiere_audio returns the text (possibly empty), or None after a
\* failure it printed
YtTranscribe ==
    /\ yt_pc = "transkription"
    /\ \E ergebnis \in {"text", "leer", "Exception"} :
          /\ text' = IF ergebnis = "text" THEN "Transkript" ELSE ""
          /\ yt_schritte' = Append(yt_schritte, "transkribiere_audio")
                            \o IF ergebnis = "Exception"
                               THEN <<"Fehler bei der Transkription">> ELSE <<>>
    /\ yt_pc' = "aufraeumen"
    /\ UNCHANGED <<url, video_id, untertitel, audio_datei, rueckgabe>>
    /\ UNCHANGED <<fileVars, ruleVars, toolVars, menuVars, pdfVars, imgVars>>

\* the audio file is removed if it exists; then the text is returned, or
\* the error text if there is none
YtCleanup ==
    /\ yt_pc = "aufraeumen"
    /\ audio_datei' = FALSE
    /\ yt_schritte' = IF audio_datei
                      THEN yt_schritte \o <<"os.remove", "Audio-Datei aufgeräumt">>
                      ELSE yt_schritte
    /\ rueckgabe' = IF text = "" THEN Fehlertext ELSE text
    /\ yt_pc' = "returned"
    /\ UNCHANGED <<url, video_id, untertitel, text>>
    /\ UNCHANGED <<fileVars, ruleVars, toolVars, menuVars, pdfVars, imgVars>>

YtNext ==
    \/ YtStart \/ YtBadUrl
    \/ YtManual \/ YtManualFails \/ YtAuto \/ YtAutoDisabled \/ YtAutoRaises
    \/ YtReturnSubtitles \/ YtAudio \/ YtAudioFails \/ YtTranscribe \/ YtCleanup

SpecYoutube == YtInit /\ [][YtNext]_vars

\* positions in yt_schritte of a step
Stellen(schritt) == {i \in DOMAIN yt_schritte : yt_schritte[i] = schritt}

\* the service holds no subtitle text for the video that the function would get
KeineUntertitel ==
    /\ untertitel.de # "text"
    /\ untertitel.de = "leer" \/ untertitel.auto # "text"

\* C24 as stated: the subtitles are tried before any audio download; whenever
\* the lookup yields no subtitles, in whatever way, the audio download is
\* attempted; and once the audio was downloaded, audio.mp3 is gone when the
\* function returns, whether or not the transcription gave a text.
C24_AudioFallbackAndCleanup ==
    /\ \A i \in Stellen("extrahiere_audio") :
          \E j \in Stellen("get_transcript de") : j < i
    /\ yt_pc = "returned" /\ youtube_regex(url) /\ KeineUntertitel
       => Stellen("extrahiere_audio") # {}
    /\ yt_pc = "returned" /\ Stellen("transkribiere_audio") # {}
       => ~audio_datei

-----------------------------------------------------------------------------
(* The nine rules in sequence on documents built from parts                *)

MaxChainParts == 2

\* a figure block whose image command pandoc has wrapped in \pandocbounded
WrappedFig(ws, path) ==
    [kind |-> "wrappedfig",
     toks |-> FigureBegin \o ws \o <<"\\centering">> \o ws
              \o <<"\\pandocbounded", "{", "\\includegraphics", "[", "keepaspectratio", "]",
                   "{">> \o path \o <<"}", "}">>,
     arg  |-> <<ws, path>>]

\* the pieces of the documents the whole chain is tried on
ChainParts ==
    {Fig(<<"\n">>, FALSE, <<>>, <<"a.png">>),
     Fig(<<"\n">>, TRUE, << <<"keepaspectratio">> >>, <<"a.png">>),
     Fig(<<"\n">>, TRUE, << <<"width", "=", "5cm">> >>, <<"b.png">>),
     WrappedFig(<<"\n">>, <<"a.png">>),
     Code(<<"x">>), Code(<<"a", "|", "b">>), Code(<<Backquote, Backquote>>),
     Code(<<"\\(", "x", "\\)">>), Code(<<"\\tightlist">>),
     Text(<<"\\midrule">>), Text(<<"\\(", "x", "\\)">>), Text(<<"x">>), Text(<<"\n">>)}

\* _apply_all_transformations is about to run on a document read from a file
ChainInit ==
    /\ FileIdle
    /\ ToolIdle
    /\ MenuIdle
    /\ PdfIdle
    /\ ImgIdle
    /\ YtIdle
    /\ rule = 0
    /\ parts \in UNION {[1..m -> ChainParts] : m \in 0..MaxChainParts}
    /\ inDoc = Concat([i \in DOMAIN parts |-> parts[i].toks])
    /\ outDoc = <<>>
    /\ out2 = <<>>
    /\ phase = "in"

\* _apply_all_transformations with no rule raising
ApplyAll ==
    /\ phase = "in"
    /\ outDoc' = Pipeline(inDoc, cur)
    /\ phase' = "once"
    /\ UNCHANGED <<rule, parts, inDoc, out2>>
    /\ UNCHANGED <<fileVars, toolVars, menuVars, pdfVars, imgVars, ytVars>>

\* the next run of the script: the chain is applied to the text it wrote
ReapplyAll ==
    /\ phase = "once"
    /\ out2' = Pipeline(outDoc, cur)
    /\ phase' = "twice"
    /\ UNCHANGED <<rule, parts, inDoc, outDoc>>
    /\ UNCHANGED <<fileVars, toolVars, menuVars, pdfVars, imgVars, ytVars>>

ChainNext == ApplyAll \/ ReapplyAll

SpecChain == ChainInit /\ [][ChainNext]_vars

\* C25 as stated: the chain applied to its own output, with the same file
\* name and timestamp, changes nothing.
C25_ChainIdempotent ==
    phase = "twice" => out2 = outDoc

\* the image command at position i of doc has an option list that names a
\* width or a height
Sized(doc, i) ==
    /\ i < Len(doc) /\ doc[i + 1] = "["
    /\ LET close == FirstTok(doc, i + 1, "]")
       IN  close # 0 /\ \E j \in (i + 2)..(close - 1) : doc[j] \in {"width", "height"}

ImageCmds(doc) == {i \in DOMAIN doc : doc[i] = "\\includegraphics"}

\* C26 as stated: after the whole chain every figure block of the input,
\* wrapped in \pandocbounded or not, has its image command with a width or
\* height option.
C26_EveryFigureSized ==
    phase = "once"
    => /\ Cardinality(ImageCmds(outDoc)) = Cardinality(ImageCmds(inDoc))
       /\ \A i \in ImageCmds(outDoc) : Sized(outDoc, i)

\* C27 as stated: after the whole chain every inline-code item
\* \passthrough{\lstinline!P!} of the input is \verb|P| with P unchanged.
C27_PayloadKeptByChain ==
    phase = "once"
    => \A n \in DOMAIN parts :
          parts[n].kind = "code"
          => Contains(outDoc, <<"\\verb", "|">> \o parts[n].arg[1] \o <<"|">>)

-----------------------------------------------------------------------------
(* Properties of the run: the working directory                            *)

\* C28 as stated: when process_files has returned or the process has exited,
\* the working directory is the one the call started in.
C28_WorkingDirectoryRestored ==
    pc \in {"done", "exit"} => cwd = <<"home">>

====
